---- MODULE Spec2Model ----
(***************************************************************************)
(* Competitive-integrity layer of the platform (CTFd plugin "phase2"):     *)
(*   - first-blood determination hook   (hooks.py, on_solve_inserted)      *)
(*   - consent-gated suspicion creation (detection.py, models.py)          *)
(*   - verdict audit trail and review   (models.py, api.py, utils.py)      *)
(*                                                                         *)
(* The relational store is modelled with statement-level atomicity and     *)
(* read-committed visibility: a transaction sees committed rows and its    *)
(* own pending rows; a failed statement does not end the transaction.      *)
(***************************************************************************)
EXTENDS Integers, Sequences, FiniteSets, TLC

\* ------------------------------------------------------------------ bounds
NumProcs == 2
NumChallenges == 1
MaxTime == 2
NumUsers == 2
NumWorkers == 1
NumTogglers == 2
NumReviewers == 2
MaxFindings == 1
MaxAudit == 2
MaxDirect == 1
MaxQueryTime == 3
MaxBoardRows == 3
NumSessions == 2

Procs == 1..NumProcs
Challenges == 1..NumChallenges
Times == 1..MaxTime
Users == 1..NumUsers
Workers == 1..NumWorkers
Togglers == 1..NumTogglers
Reviewers == 1..NumReviewers
FindingIds == 1..MaxFindings
None == 0

VARIABLES
    \* ---- first-blood engine
    pc,             \* position of each solve-insertion transaction
    chal,           \* target.challenge_id of each transaction's solve
    ts,             \* target.date of each transaction's solve
    outcome,        \* exit path the hook took in each transaction
    fb,             \* rows of phase2_first_blood_prestige
    lockHolder,     \* GET_LOCK holder (connection) per challenge, None if free
    lockSupported,  \* whether the store has the GET_LOCK primitive
    cache,          \* cache entry under phase2:first_blood_claimed:<challenge>
    cachedHint,     \* cached_hint of each running hook invocation
    \* ---- consent ledger and suspicion creation
    consent,        \* phase2_user_consent row per user: absent / granted / withdrawn
    rowLock,        \* session holding the row lock of each consent row
    findings,       \* rows of phase2_flag_sharing_suspicion
    nextFindingId,  \* autoincrement of phase2_flag_sharing_suspicion.id
    wpc,            \* position of each pipeline session
    wpat,           \* <<user_id_1, user_id_2>> of the pattern being persisted
    wseen,          \* consent rows read under lock by the current call
    wresult,        \* result of the last create_suspicion_record call
    tpc,            \* position of each grant/withdraw request
    tuser,          \* user of the request
    top,            \* "grant" or "withdraw"
    tseen,          \* the row the request's read returned
    \* ---- verdict audit trail and review endpoint
    audit,          \* rows of phase2_verdict_history
    nextAuditId,    \* autoincrement of phase2_verdict_history.id
    now,            \* the clock read by datetime.utcnow()
    recorded,       \* per finding id: number of completed record_verdict calls
    rpc,            \* position of each review request
    rfind,          \* suspicion_id of the request
    rverdict,       \* verdict of the request
    rentry,         \* id of the audit entry the request created
    rresp,          \* status of the last response of each reviewer
    directAttempts, \* number of direct statements issued against the audit table
    directResult,   \* what the store did with the last direct statement
    answered,       \* history: review requests answered with success
    rprior,         \* history: entries of the requests answered before this one began
    \* ---- library functions
    call            \* the last library call: function, arguments, result

fbVars == <<pc, chal, ts, outcome, fb, lockHolder, lockSupported, cache, cachedHint>>
suspVars == <<consent, rowLock, findings, nextFindingId, wpc, wpat, wseen, wresult,
              tpc, tuser, top, tseen>>
auditVars == <<audit, nextAuditId, now, recorded, rpc, rfind, rverdict, rentry, rresp,
               directAttempts, directResult, answered, rprior>>
utilVars == <<call>>
vars == <<fbVars, suspVars, auditVars, utilVars>>

\* ------------------------------------------------------------ solve facts
\* A solve row is written by its transaction before the hook runs; user ids
\* are distinct per solve of a challenge (one solve per user and challenge).
UserOf(p) == p

SolveInserted(p) == pc[p] \notin {"idle", "rolled_back", "aborted_by_hook"}
SolveCommitted(p) == pc[p] = "done"

\* Rows of solves a statement of transaction p can see.
VisibleSolves(p, c) ==
    {q \in Procs : chal[q] = c /\ SolveInserted(q) /\ (SolveCommitted(q) \/ q = p)}

\* Rows of phase2_first_blood_prestige a statement of transaction p can see.
VisibleFB(p, c) ==
    {r \in fb : r.challenge_id = c /\ (r.committed \/ r.solve_id = p)}

\* ------------------------------------------------------------ signed cache
CacheKinds == {"absent", "valid", "forged", "malformed", "unhandled"}

\* get_signed_cache: value returned for an entry of the given kind.
\*   absent                -> None
\*   valid signature       -> the value
\*   forged signature      -> None
\*   malformed (not JSON, missing fields) -> None
\*   unhandled: JSON that is not an object (data.get raises AttributeError)
\*   or an object with a signature and no string value (value.encode raises
\*   AttributeError); the except clause (JSONDecodeError, KeyError,
\*   TypeError) does not catch it and the entry stays in the cache.
GetSignedCacheResult(entry) ==
    CASE entry = "absent" -> "None"
      [] entry = "valid" -> "1"
      [] entry = "forged" -> "None"
      [] entry = "malformed" -> "None"
      [] entry = "unhandled" -> "raise"

\* get_signed_cache: the entry left in the cache after the read.
GetSignedCacheAfter(entry) ==
    CASE entry = "absent" -> "absent"
      [] entry = "valid" -> "valid"
      [] entry = "forged" -> "absent"
      [] entry = "malformed" -> "absent"
      [] entry = "unhandled" -> "unhandled"

\* set_signed_cache(cache, key, '1'): stores the value with its own tag.
SetSignedCache(c) == [cache EXCEPT ![c] = "valid"]

\* ------------------------------------------------------------- prestige
\* challenges.value of each challenge (0: no fixed value).
ChallengeValueOf(c) == IF c = 1 THEN 0 ELSE 201

\* calculate_prestige_score: int(value * 1.5), base 100 when the value is
\* missing, zero or negative.
calculate_prestige_score_rounded(v) ==
    LET base == IF v <= 0 THEN 100 ELSE v
    IN (base * 3 + 1) \div 2

calculate_prestige_score(v) ==
    LET base == IF v <= 0 THEN 100 ELSE v
    IN (base * 3) \div 2

\* --------------------------------------------------- uniqueness constraint
\* unique=True on challenge_id and on solve_id: the INSERT conflicts with a
\* committed row carrying the same challenge or the same solve.
UniqueViolation_off(c, sid) == FALSE

UniqueViolation(c, sid) ==
    \E r \in fb : r.committed /\ (r.challenge_id = c \/ r.solve_id = sid)

\* The INSERT waits while another open transaction holds a pending row with
\* the same unique key.
UniqueWait(p, c) ==
    \E r \in fb : ~r.committed /\ r.solve_id # p /\ r.challenge_id = c

\* ------------------------------------------------------ exception handling
\* The handler of on_solve_inserted's outer try: log, do not re-raise; the
\* flush of the enclosing transaction goes on.
OuterExcept_reraise(err) == IF err = "insert_error" THEN "propagate" ELSE "swallow"

OuterExcept(err) == "swallow"

\* Whether the solve query of STEP 3 finds a row: same challenge, strictly
\* earlier timestamp, or equal timestamp and strictly lower user id.
EarlierSolveExists(p) ==
    \E q \in VisibleSolves(p, chal[p]) :
        \/ ts[q] < ts[p]
        \/ (ts[q] = ts[p] /\ UserOf(q) < UserOf(p))

\* ---------------------------------------------------------------- actions
\* The submission pipeline inserts a solve row in a new transaction; the
\* after_insert hook starts.
BeginSolve(p) ==
    /\ pc[p] = "idle"
    /\ \E c \in Challenges, t \in Times :
          /\ chal' = [chal EXCEPT ![p] = c]
          /\ ts' = [ts EXCEPT ![p] = t]
    /\ pc' = [pc EXCEPT ![p] = "hook_cache"]
    /\ UNCHANGED <<outcome, fb, lockHolder, lockSupported, cache, cachedHint>>
    /\ UNCHANGED <<suspVars, auditVars, utilVars>>

\* hooks.py 90-95: what the hook does with cached_hint: nothing ("even if
\* signed cache says claimed, we still verify with DB"); no return depends
\* on it.
HintEndsHook_claimed(hint) == hint = "1"

HintEndsHook(hint) == FALSE

\* cached_hint before the read and after the hook returned.
NoHint == "unread"

\* hooks.py 87-93: read the signed hint; the value read is not used.
HookCacheRead(p) ==
    /\ pc[p] = "hook_cache"
    /\ LET c == chal[p] IN
       \E backendError \in BOOLEAN :
          IF backendError \/ GetSignedCacheResult(cache[c]) = "raise"
          THEN /\ pc' = [pc EXCEPT ![p] = "hook_raise"]
               /\ outcome' = [outcome EXCEPT ![p] = "cache_error"]
               /\ UNCHANGED <<cache, cachedHint>>
          ELSE /\ cache' = [cache EXCEPT ![c] = GetSignedCacheAfter(cache[c])]
               /\ IF HintEndsHook(GetSignedCacheResult(cache[c]))
                  THEN /\ pc' = [pc EXCEPT ![p] = "flushed"]
                       /\ outcome' = [outcome EXCEPT ![p] = "hint"]
                       /\ UNCHANGED cachedHint
                  ELSE /\ pc' = [pc EXCEPT ![p] = "hook_lock"]
                       /\ cachedHint' = [cachedHint EXCEPT ![p] =
                                             GetSignedCacheResult(cache[c])]
                       /\ UNCHANGED outcome
    /\ UNCHANGED <<chal, ts, fb, lockHolder, lockSupported>>
    /\ UNCHANGED <<suspVars, auditVars, utilVars>>

\* GET_LOCK(name, 10) on a store that has it: 1 when the lock is free or
\* already held by this connection, 0 when another connection holds it for
\* the whole timeout, NULL on an error.
GetLockResults(p, c) ==
    (IF lockHolder[c] \in {None, p} THEN {"1"} ELSE {"0"}) \cup {"NULL"}

\* hooks.py 109-111: if lock_result != 1: return.
LockAcquired_unchecked(lock_result) == TRUE

LockAcquired(lock_result) == lock_result = "1"

\* hooks.py 112-116: the handler around the lock call: log, then go on
\* without the lock ("UNIQUE constraint will prevent duplicates").
LockExcept_return(err) == "return"

LockExcept(err) == "continue"

\* hooks.py 103-116: GET_LOCK(name, 10).
\*   unsupported primitive: the call raises, the hook goes on without lock;
\*   result 1: the hook goes on holding the lock;
\*   result 0 or NULL: the hook returns.
HookGetLock(p) ==
    /\ pc[p] = "hook_lock"
    /\ LET c == chal[p] IN
       IF ~lockSupported
       THEN IF LockExcept("unsupported") = "continue"
            THEN /\ pc' = [pc EXCEPT ![p] = "hook_check_fb"]
                 /\ UNCHANGED <<lockHolder, outcome, cachedHint>>
            ELSE /\ pc' = [pc EXCEPT ![p] = "flushed"]
                 /\ outcome' = [outcome EXCEPT ![p] = "lock_unsupported"]
                 /\ cachedHint' = [cachedHint EXCEPT ![p] = NoHint]
                 /\ UNCHANGED lockHolder
       ELSE \E lock_result \in GetLockResults(p, c) :
               IF LockAcquired(lock_result)
               THEN /\ lockHolder' = IF lock_result = "1"
                                     THEN [lockHolder EXCEPT ![c] = p]
                                     ELSE lockHolder
                    /\ pc' = [pc EXCEPT ![p] = "hook_check_fb"]
                    /\ UNCHANGED <<outcome, cachedHint>>
               ELSE /\ pc' = [pc EXCEPT ![p] = "flushed"]
                    /\ outcome' = [outcome EXCEPT ![p] =
                                      IF lock_result = "0" THEN "lock_timeout"
                                      ELSE "lock_error"]
                    /\ cachedHint' = [cachedHint EXCEPT ![p] = NoHint]
                    /\ UNCHANGED lockHolder
    /\ UNCHANGED <<chal, ts, fb, lockSupported, cache>>
    /\ UNCHANGED <<suspVars, auditVars, utilVars>>

\* hooks.py 118-133: existing first-blood row for the challenge?
HookCheckExisting(p) ==
    /\ pc[p] = "hook_check_fb"
    /\ LET c == chal[p] IN
       \E queryError \in BOOLEAN :
          IF queryError
          THEN /\ pc' = [pc EXCEPT ![p] = "hook_raise"]
               /\ outcome' = [outcome EXCEPT ![p] = "query_error"]
               /\ UNCHANGED <<cache, cachedHint>>
          ELSE IF VisibleFB(p, c) # {}
               THEN /\ cache' = SetSignedCache(c)
                    /\ pc' = [pc EXCEPT ![p] = "flushed"]
                    /\ outcome' = [outcome EXCEPT ![p] = "exists"]
                    /\ cachedHint' = [cachedHint EXCEPT ![p] = NoHint]
               ELSE /\ pc' = [pc EXCEPT ![p] = "hook_check_earlier"]
                    /\ UNCHANGED <<cache, outcome, cachedHint>>
    /\ UNCHANGED <<chal, ts, fb, lockHolder, lockSupported>>
    /\ UNCHANGED <<suspVars, auditVars, utilVars>>

\* hooks.py 135-163: timestamp authority check with the user-id tie-break.
HookCheckEarlier(p) ==
    /\ pc[p] = "hook_check_earlier"
    /\ LET c == chal[p] IN
       \E queryError \in BOOLEAN :
          IF queryError
          THEN /\ pc' = [pc EXCEPT ![p] = "hook_raise"]
               /\ outcome' = [outcome EXCEPT ![p] = "query_error"]
               /\ UNCHANGED <<cache, cachedHint>>
          ELSE IF EarlierSolveExists(p)
               THEN /\ cache' = SetSignedCache(c)
                    /\ pc' = [pc EXCEPT ![p] = "flushed"]
                    /\ outcome' = [outcome EXCEPT ![p] = "earlier"]
                    /\ cachedHint' = [cachedHint EXCEPT ![p] = NoHint]
               ELSE /\ pc' = [pc EXCEPT ![p] = "hook_insert"]
                    /\ UNCHANGED <<cache, outcome, cachedHint>>
    /\ UNCHANGED <<chal, ts, fb, lockHolder, lockSupported>>
    /\ UNCHANGED <<suspVars, auditVars, utilVars>>

\* hooks.py 165-213: compute prestige and INSERT the first-blood row.
\*   success: row pending in this transaction, hint set;
\*   uniqueness violation: benign loss, hint set;
\*   any other error (also a failing hint write after a successful INSERT,
\*   which the inner handler re-raises): outer handler.
HookInsert(p) ==
    /\ pc[p] = "hook_insert"
    /\ LET c == chal[p]
           row == [challenge_id |-> c, solve_id |-> p, user_id |-> UserOf(p),
                   prestige_score |-> calculate_prestige_score(ChallengeValueOf(c)),
                   timestamp |-> ts[p], committed |-> FALSE]
       IN
       \/ /\ ~UniqueWait(p, c)
          /\ IF UniqueViolation(c, p)
             THEN /\ cache' = SetSignedCache(c)
                  /\ outcome' = [outcome EXCEPT ![p] = "unique"]
                  /\ pc' = [pc EXCEPT ![p] = "hook_release"]
                  /\ UNCHANGED fb
             ELSE \E cacheWriteError \in BOOLEAN :
                    /\ fb' = fb \cup {row}
                    /\ IF cacheWriteError
                       THEN /\ outcome' = [outcome EXCEPT ![p] = "inserted_then_error"]
                            /\ pc' = [pc EXCEPT ![p] = "hook_raise"]
                            /\ UNCHANGED cache
                       ELSE /\ outcome' = [outcome EXCEPT ![p] = "inserted"]
                            /\ pc' = [pc EXCEPT ![p] = "hook_release"]
                            /\ cache' = SetSignedCache(c)
       \/ /\ outcome' = [outcome EXCEPT ![p] = "insert_error"]
          /\ pc' = [pc EXCEPT ![p] = "hook_raise"]
          /\ UNCHANGED <<fb, cache>>
    /\ UNCHANGED <<chal, ts, lockHolder, lockSupported, cachedHint>>
    /\ UNCHANGED <<suspVars, auditVars, utilVars>>

\* hooks.py 224-229: an exception raised in the hook body reaches the outer
\* handler.  Swallowed: the hook returns and the flush goes on.  Propagated:
\* the flush fails and the enclosing transaction is rolled back.
HookOuterExcept(p) ==
    /\ pc[p] = "hook_raise"
    /\ IF OuterExcept(outcome[p]) = "swallow"
       THEN /\ pc' = [pc EXCEPT ![p] = "flushed"]
            /\ UNCHANGED fb
       ELSE /\ pc' = [pc EXCEPT ![p] = "aborted_by_hook"]
            /\ fb' = {r \in fb : r.solve_id # p}
    /\ cachedHint' = [cachedHint EXCEPT ![p] = NoHint]
    /\ UNCHANGED <<chal, ts, outcome, lockHolder, lockSupported, cache>>
    /\ UNCHANGED <<suspVars, auditVars, utilVars>>

\* hooks.py 215-222: RELEASE_LOCK, errors ignored.
HookReleaseLock(p) ==
    /\ pc[p] = "hook_release"
    /\ LET c == chal[p] IN
       lockHolder' = IF lockHolder[c] = p THEN [lockHolder EXCEPT ![c] = None]
                     ELSE lockHolder
    /\ pc' = [pc EXCEPT ![p] = "flushed"]
    /\ cachedHint' = [cachedHint EXCEPT ![p] = NoHint]
    /\ UNCHANGED <<chal, ts, outcome, fb, lockSupported, cache>>
    /\ UNCHANGED <<suspVars, auditVars, utilVars>>

\* The enclosing transaction commits: its solve and its pending rows become
\* visible to all.
CommitSolve(p) ==
    /\ pc[p] = "flushed"
    /\ pc' = [pc EXCEPT ![p] = "done"]
    /\ fb' = {IF r.solve_id = p THEN [r EXCEPT !.committed = TRUE] ELSE r : r \in fb}
    /\ UNCHANGED <<chal, ts, outcome, lockHolder, lockSupported, cache, cachedHint>>
    /\ UNCHANGED <<suspVars, auditVars, utilVars>>

\* The enclosing transaction is rolled back (by the caller, or because an
\* exception left the hook): its solve and its pending rows vanish.
RollbackSolve(p) ==
    /\ pc[p] = "flushed"
    /\ pc' = [pc EXCEPT ![p] = "rolled_back"]
    /\ fb' = {r \in fb : r.solve_id # p}
    /\ UNCHANGED <<chal, ts, outcome, lockHolder, lockSupported, cache, cachedHint>>
    /\ UNCHANGED <<suspVars, auditVars, utilVars>>

\* The connection of a finished transaction is closed: the session-scoped
\* locks it still holds are released by the store.
ConnectionClose(p) ==
    /\ pc[p] \in {"done", "rolled_back", "aborted_by_hook"}
    /\ \E c \in Challenges :
          /\ lockHolder[c] = p
          /\ lockHolder' = [lockHolder EXCEPT ![c] = None]
    /\ UNCHANGED <<pc, chal, ts, outcome, fb, lockSupported, cache, cachedHint>>
    /\ UNCHANGED <<suspVars, auditVars, utilVars>>

\* The cache entry expires (TTL) or is evicted.
CacheExpire(c) ==
    /\ cache[c] # "absent"
    /\ cache' = [cache EXCEPT ![c] = "absent"]
    /\ UNCHANGED <<pc, chal, ts, outcome, fb, lockHolder, lockSupported, cachedHint>>
    /\ UNCHANGED <<suspVars, auditVars, utilVars>>

\* Someone with access to the cache writes an entry of its own making.
CachePoison(c) ==
    /\ \E k \in {"forged", "malformed", "unhandled"} :
          /\ cache[c] # k
          /\ cache' = [cache EXCEPT ![c] = k]
    /\ UNCHANGED <<pc, chal, ts, outcome, fb, lockHolder, lockSupported, cachedHint>>
    /\ UNCHANGED <<suspVars, auditVars, utilVars>>


\* =========================================================================
\* Consent ledger and consent-gated suspicion creation
\* =========================================================================
NoSession == <<"none", 0>>
WorkerSession(w) == <<"worker", w>>
TogglerSession(t) == <<"toggler", t>>
NoPattern == <<1, None>>
Unread == <<"unread", "unread">>

\* Value of phase2_user_consent.consented given by each operation.
ConsentValue(op) == IF op = "grant" THEN "granted" ELSE "withdrawn"

\* detection.py 353 and 364: "not consent or not consent.consented".
ConsentDenied_existsOnly(row) == row = "absent"

ConsentDenied(row) == row # "granted"

\* with_for_update(): the locking read leaves the row locked by the session
\* until its transaction ends.
TakeRowLock_none(s, u) == rowLock

TakeRowLock(s, u) == [rowLock EXCEPT ![u] = s]

\* End of a session's transaction (COMMIT or ROLLBACK): its row locks go.
ReleaseRowLocks(s) ==
    [u \in Users |-> IF rowLock[u] = s THEN NoSession ELSE rowLock[u]]

\* A locking read or a write of the row of u by session s has to wait.
RowBlocked(s, u) == rowLock[u] \notin {NoSession, s}

\* Users a finding involves.
InvolvedUsers(f) == {f.user_id_1} \cup (IF f.user_id_2 = None THEN {} ELSE {f.user_id_2})

\* A withdraw_consent call for one of the users has read the row and is
\* waiting to write.
WithdrawalPending(us) ==
    \E t \in Togglers : tpc[t] = "write" /\ top[t] = "withdraw" /\ tuser[t] \in us

\* workers.py 194-200: a pipeline run opens its application context/session.
WorkerBegin(w) ==
    /\ wpc[w] = "idle"
    /\ wpc' = [wpc EXCEPT ![w] = "loop"]
    /\ UNCHANGED <<consent, rowLock, findings, nextFindingId, wpat, wseen, wresult,
                   tpc, tuser, top, tseen>>
    /\ UNCHANGED <<utilVars, fbVars, auditVars>>

\* detection.py 332-345: create_suspicion_record(pattern) starts and opens
\* the nested transaction.
CreateBegin(w) ==
    /\ wpc[w] = "loop"
    /\ nextFindingId <= MaxFindings
    /\ \E u1 \in Users, u2 \in (Users \cup {None}) :
          /\ u1 # u2
          /\ wpat' = [wpat EXCEPT ![w] = <<u1, u2>>]
    /\ wseen' = [wseen EXCEPT ![w] = Unread]
    /\ wresult' = [wresult EXCEPT ![w] = "pending"]
    /\ wpc' = [wpc EXCEPT ![w] = "lock1"]
    /\ UNCHANGED <<consent, rowLock, findings, nextFindingId, tpc, tuser, top, tseen>>
    /\ UNCHANGED <<utilVars, fbVars, auditVars>>

\* detection.py 348-355: locking read of user 1's consent row and check.
\* "return None" leaves the with-block normally: the savepoint is released,
\* the session's transaction stays open.
CreateLock1(w) ==
    /\ wpc[w] = "lock1"
    /\ LET u == wpat[w][1]
           row == consent[u]
       IN /\ ~RowBlocked(WorkerSession(w), u)
          /\ rowLock' = IF row = "absent" THEN rowLock
                        ELSE TakeRowLock(WorkerSession(w), u)
          /\ IF ConsentDenied(row)
             THEN /\ wresult' = [wresult EXCEPT ![w] = "None"]
                  /\ wpc' = [wpc EXCEPT ![w] = "loop"]
                  /\ wpat' = [wpat EXCEPT ![w] = NoPattern]
                  /\ wseen' = [wseen EXCEPT ![w] = Unread]
             ELSE /\ wpc' = [wpc EXCEPT ![w] =
                                IF wpat[w][2] # None THEN "lock2" ELSE "insert"]
                  /\ wseen' = [wseen EXCEPT ![w][1] = row]
                  /\ UNCHANGED <<wresult, wpat>>
    /\ UNCHANGED <<consent, findings, nextFindingId, tpc, tuser, top, tseen>>
    /\ UNCHANGED <<utilVars, fbVars, auditVars>>

\* detection.py 357-366: the same for user 2.
CreateLock2(w) ==
    /\ wpc[w] = "lock2"
    /\ LET u == wpat[w][2]
           row == consent[u]
       IN /\ ~RowBlocked(WorkerSession(w), u)
          /\ rowLock' = IF row = "absent" THEN rowLock
                        ELSE TakeRowLock(WorkerSession(w), u)
          /\ IF ConsentDenied(row)
             THEN /\ wresult' = [wresult EXCEPT ![w] = "None"]
                  /\ wpc' = [wpc EXCEPT ![w] = "loop"]
                  /\ wpat' = [wpat EXCEPT ![w] = NoPattern]
                  /\ wseen' = [wseen EXCEPT ![w] = Unread]
             ELSE /\ wpc' = [wpc EXCEPT ![w] = "insert"]
                  /\ wseen' = [wseen EXCEPT ![w][2] = row]
                  /\ UNCHANGED <<wresult, wpat>>
    /\ UNCHANGED <<consent, findings, nextFindingId, tpc, tuser, top, tseen>>
    /\ UNCHANGED <<utilVars, fbVars, auditVars>>

\* detection.py 401-404: a locking read that cannot be granted (lock wait
\* timeout, deadlock victim) raises; the handler rolls the session back and
\* returns None.
CreateLockFail(w) ==
    /\ wpc[w] \in {"lock1", "lock2"}
    /\ RowBlocked(WorkerSession(w), wpat[w][IF wpc[w] = "lock1" THEN 1 ELSE 2])
    /\ rowLock' = ReleaseRowLocks(WorkerSession(w))
    /\ wresult' = [wresult EXCEPT ![w] = "None"]
    /\ wpc' = [wpc EXCEPT ![w] = "loop"]
    /\ wpat' = [wpat EXCEPT ![w] = NoPattern]
    /\ wseen' = [wseen EXCEPT ![w] = Unread]
    /\ UNCHANGED <<consent, findings, nextFindingId, tpc, tuser, top, tseen>>
    /\ UNCHANGED <<utilVars, fbVars, auditVars>>

\* detection.py 368-399: build the finding, flush it with the nested
\* transaction and commit; a failing INSERT or COMMIT goes to the handler
\* (401-404), which rolls back.  Both ends release the row locks.
CreateInsert(w) ==
    /\ wpc[w] = "insert"
    /\ \E dbError \in BOOLEAN :
          IF dbError
          THEN /\ wresult' = [wresult EXCEPT ![w] = "None"]
               /\ UNCHANGED <<findings, nextFindingId>>
          ELSE /\ findings' = findings \cup
                    {[id |-> nextFindingId,
                      user_id_1 |-> wpat[w][1],
                      user_id_2 |-> wpat[w][2],
                      admin_verdict |-> "pending",
                      reviewed_by |-> None,
                      reviewed_at |-> None,
                      expired |-> FALSE,
                      seen |-> wseen[w],
                      raced |-> WithdrawalPending({wpat[w][1], wpat[w][2]})]}
               /\ nextFindingId' = nextFindingId + 1
               /\ wresult' = [wresult EXCEPT ![w] = "created"]
    /\ rowLock' = ReleaseRowLocks(WorkerSession(w))
    /\ wpc' = [wpc EXCEPT ![w] = "loop"]
    /\ wpat' = [wpat EXCEPT ![w] = NoPattern]
    /\ wseen' = [wseen EXCEPT ![w] = Unread]
    /\ UNCHANGED <<consent, tpc, tuser, top, tseen>>
    /\ UNCHANGED <<utilVars, fbVars, auditVars>>

\* workers.py 208-211: the run ends, db.session.remove() rolls back whatever
\* transaction is still open.
WorkerEnd(w) ==
    /\ wpc[w] = "loop"
    /\ rowLock' = ReleaseRowLocks(WorkerSession(w))
    /\ wpc' = [wpc EXCEPT ![w] = "idle"]
    /\ wresult' = [wresult EXCEPT ![w] = "pending"]
    /\ UNCHANGED <<consent, findings, nextFindingId, wpat, wseen,
                   tpc, tuser, top, tseen>>
    /\ UNCHANGED <<utilVars, fbVars, auditVars>>

\* models.py 353 and 383: grant_consent / withdraw_consent read the row.
ToggleRead(t) ==
    /\ tpc[t] = "idle"
    /\ \E u \in Users, op \in {"grant", "withdraw"} :
          /\ tuser' = [tuser EXCEPT ![t] = u]
          /\ top' = [top EXCEPT ![t] = op]
          /\ tseen' = [tseen EXCEPT ![t] = consent[u]]
    /\ tpc' = [tpc EXCEPT ![t] = "write"]
    /\ UNCHANGED <<consent, rowLock, findings, nextFindingId, wpc, wpat, wseen, wresult>>
    /\ UNCHANGED <<utilVars, fbVars, auditVars>>

\* models.py 355-369 and 385-398 (flush of db.session.commit()): INSERT a
\* new row (no row was read) or UPDATE the row read.  The statement waits for
\* the row lock and then holds it; an INSERT meeting a row created meanwhile
\* violates unique(user_id) and the call raises.
ToggleFlush(t) ==
    /\ tpc[t] = "write"
    /\ LET u == tuser[t] IN
       /\ ~RowBlocked(TogglerSession(t), u)
       /\ IF tseen[t] = "absent" /\ consent[u] # "absent"
          THEN /\ tpc' = [tpc EXCEPT ![t] = "idle"]
               /\ tuser' = [tuser EXCEPT ![t] = 1]
               /\ top' = [top EXCEPT ![t] = "grant"]
               /\ tseen' = [tseen EXCEPT ![t] = "absent"]
               /\ UNCHANGED rowLock
          ELSE /\ tpc' = [tpc EXCEPT ![t] = "commit"]
               /\ rowLock' = [rowLock EXCEPT ![u] = TogglerSession(t)]
               /\ UNCHANGED <<tuser, top, tseen>>
    /\ UNCHANGED <<consent, findings, nextFindingId, wpc, wpat, wseen, wresult>>
    /\ UNCHANGED <<utilVars, fbVars, auditVars>>

\* models.py 355-367 and 385-396: the value of the consented column after
\* the call's statement.  A row that was not found is INSERTed with the
\* call's value.  A row that was found is UPDATEd through the mapped object:
\* the unit of work writes the columns whose value differs from the value
\* loaded by the read at 353/383, so "consent.consented = <value loaded>"
\* puts no consented column into the UPDATE (the timestamp columns still
\* change) and the stored value stays.
WrittenConsent_always(read, op, stored) == ConsentValue(op)

WrittenConsent(read, op, stored) ==
    IF read = ConsentValue(op) THEN stored ELSE ConsentValue(op)

\* models.py 369 and 398 (COMMIT): the new value of the row becomes visible
\* and the row lock is released.
ToggleCommit(t) ==
    /\ tpc[t] = "commit"
    /\ consent' = [consent EXCEPT ![tuser[t]] =
                      WrittenConsent(tseen[t], top[t], consent[tuser[t]])]
    /\ rowLock' = ReleaseRowLocks(TogglerSession(t))
    /\ tpc' = [tpc EXCEPT ![t] = "idle"]
    /\ tuser' = [tuser EXCEPT ![t] = 1]
    /\ top' = [top EXCEPT ![t] = "grant"]
    /\ tseen' = [tseen EXCEPT ![t] = "absent"]
    /\ UNCHANGED <<findings, nextFindingId, wpc, wpat, wseen, wresult>>
    /\ UNCHANGED <<utilVars, fbVars, auditVars>>

\* The write waited for the row lock longer than the store allows: the call
\* raises and nothing is written.
ToggleTimeout(t) ==
    /\ tpc[t] = "write"
    /\ RowBlocked(TogglerSession(t), tuser[t])
    /\ tpc' = [tpc EXCEPT ![t] = "idle"]
    /\ tuser' = [tuser EXCEPT ![t] = 1]
    /\ top' = [top EXCEPT ![t] = "grant"]
    /\ tseen' = [tseen EXCEPT ![t] = "absent"]
    /\ UNCHANGED <<consent, rowLock, findings, nextFindingId, wpc, wpat, wseen, wresult>>
    /\ UNCHANGED <<utilVars, fbVars, auditVars>>

\* =========================================================================
\* Verdict audit trail, review endpoint, retention cleanup
\* =========================================================================
\* api.py 431: valid_verdicts.
ValidVerdicts_any == {"innocent", "suspicious", "confirmed", "bogus"}

ValidVerdicts == {"innocent", "suspicious", "confirmed"}
VerdictInputs == ValidVerdicts \cup {"bogus"}

FindingExists(fid) == \E f \in findings : f.id = fid

CommittedAudit == {e \in audit : e.committed}

\* models.py 429-434: suspicion_id is a foreign key with ondelete='CASCADE':
\* deleting findings deletes the audit rows that reference them.
OnDeleteCascade(deletedIds) == {e \in audit : e.suspicion_id \notin deletedIds}

\* models.py 402-464: the table is declared with columns, indexes and
\* foreign keys only; nothing in it (trigger, rule, privilege) makes the
\* store refuse an UPDATE or DELETE of an existing row.
AuditMutationDenied == FALSE

\* SetToSeq helper for get_history: the rows of a finite set, sorted by
\* created_at ascending (rows with equal created_at: by id).
RECURSIVE SortByCreatedAt(_)
SortByCreatedAt(S) ==
    IF S = {} THEN <<>>
    ELSE LET first == CHOOSE e \in S : \A o \in S :
                         \/ e.created_at < o.created_at
                         \/ (e.created_at = o.created_at /\ e.id <= o.id)
         IN <<first>> \o SortByCreatedAt(S \ {first})

\* models.py 506-522: VerdictHistory.get_history(suspicion_id, limit).
get_history(fid, limit) ==
    LET rows == SortByCreatedAt({e \in CommittedAudit : e.suspicion_id = fid})
    IN IF Len(rows) <= limit THEN rows ELSE SubSeq(rows, 1, limit)

\* models.py 507: default value of limit.
DefaultHistoryLimit == 100

\* models.py 459-464: created_at defaults to datetime.utcnow, called when
\* the row is inserted.
CreatedAtDefault_frozen(t) == 1

CreatedAtDefault(t) == t

\* Response of the review endpoint: status and, on success, the
\* audit_entry_id of the body (api.py 473-482).
Response(status, eid) == [status |-> status, audit_entry_id |-> eid]

\* api.py 484-490: the handler of the endpoint's try block: rollback, then
\* the failure body with status 500.
ReviewFailed_success == Response("200", None)

ReviewFailed == Response("500", None)

\* api.py 418-448: the request is validated and the finding looked up.
ReviewBegin(r) ==
    /\ rpc[r] = "idle"
    /\ nextAuditId <= MaxAudit
    /\ \E fid \in FindingIds, v \in VerdictInputs :
          IF v \notin ValidVerdicts
          THEN /\ rresp' = [rresp EXCEPT ![r] = Response("400", None)]
               /\ UNCHANGED <<rpc, rfind, rverdict, rprior>>
          ELSE IF ~FindingExists(fid)
          THEN /\ rresp' = [rresp EXCEPT ![r] = Response("404", None)]
               /\ UNCHANGED <<rpc, rfind, rverdict, rprior>>
          ELSE /\ rresp' = [rresp EXCEPT ![r] = Response("none", None)]
               /\ rpc' = [rpc EXCEPT ![r] = "record"]
               /\ rfind' = [rfind EXCEPT ![r] = fid]
               /\ rverdict' = [rverdict EXCEPT ![r] = v]
               /\ rprior' = [rprior EXCEPT ![r] = {a.id : a \in answered}]
    /\ UNCHANGED <<audit, nextAuditId, now, recorded, rentry, directAttempts, directResult,
                   answered>>
    /\ UNCHANGED <<utilVars, fbVars, suspVars>>

\* models.py 490-499 (first half): the entry is built (created_at defaults
\* to utcnow()) and INSERTed; the store assigns the id.  The INSERT fails
\* when the finding is gone (foreign key) or on any store error; the
\* exception reaches api.py 484-490: rollback, status 500.
ReviewFlush(r) ==
    /\ rpc[r] = "record"
    /\ \E dbError \in BOOLEAN :
          IF dbError \/ ~FindingExists(rfind[r])
          THEN /\ rresp' = [rresp EXCEPT ![r] = ReviewFailed]
               /\ rpc' = [rpc EXCEPT ![r] = "idle"]
               /\ rfind' = [rfind EXCEPT ![r] = 1]
               /\ rverdict' = [rverdict EXCEPT ![r] = "innocent"]
               /\ rprior' = [rprior EXCEPT ![r] = {}]
               /\ UNCHANGED <<audit, nextAuditId, rentry>>
          ELSE /\ audit' = audit \cup
                    {[id |-> nextAuditId,
                      suspicion_id |-> rfind[r],
                      verdict |-> rverdict[r],
                      reviewed_by |-> r,
                      notes |-> "none",
                      created_at |-> CreatedAtDefault(now),
                      committed |-> FALSE]}
               /\ nextAuditId' = nextAuditId + 1
               /\ rentry' = [rentry EXCEPT ![r] = nextAuditId]
               /\ rpc' = [rpc EXCEPT ![r] = "record_commit"]
               /\ UNCHANGED <<rresp, rfind, rverdict, rprior>>
    /\ UNCHANGED <<now, recorded, directAttempts, directResult, answered>>
    /\ UNCHANGED <<utilVars, fbVars, suspVars>>

\* models.py 499-504: COMMIT inside record_verdict; the entry is returned.
\* A store round trip takes longer than the clock's resolution.
ReviewRecordCommit(r) ==
    /\ rpc[r] = "record_commit"
    /\ \E dbError \in BOOLEAN :
          IF dbError
          THEN /\ audit' = {e \in audit : e.id # rentry[r]}
               /\ rresp' = [rresp EXCEPT ![r] = ReviewFailed]
               /\ rpc' = [rpc EXCEPT ![r] = "idle"]
               /\ rfind' = [rfind EXCEPT ![r] = 1]
               /\ rverdict' = [rverdict EXCEPT ![r] = "innocent"]
               /\ rentry' = [rentry EXCEPT ![r] = None]
               /\ rprior' = [rprior EXCEPT ![r] = {}]
               /\ UNCHANGED recorded
          ELSE /\ audit' = {IF e.id = rentry[r] THEN [e EXCEPT !.committed = TRUE] ELSE e
                            : e \in audit}
               /\ recorded' = [recorded EXCEPT ![rfind[r]] = @ + 1]
               /\ rpc' = [rpc EXCEPT ![r] = "update"]
               /\ UNCHANGED <<rresp, rfind, rverdict, rentry, rprior>>
    /\ now' = now + 1
    /\ UNCHANGED <<nextAuditId, directAttempts, directResult, answered>>
    /\ UNCHANGED <<utilVars, fbVars, suspVars>>

\* api.py 460-490: the convenience fields of the finding are set and
\* committed, the response carries the entry's id.  If the row is gone or
\* the store fails, the handler rolls back and answers 500.
ReviewUpdate(r) ==
    /\ rpc[r] = "update"
    /\ \E dbError \in BOOLEAN :
          IF dbError \/ ~FindingExists(rfind[r])
          THEN /\ rresp' = [rresp EXCEPT ![r] = ReviewFailed]
               /\ UNCHANGED <<findings, answered>>
          ELSE /\ findings' = {IF f.id = rfind[r]
                               THEN [f EXCEPT !.admin_verdict = rverdict[r],
                                              !.reviewed_at = now,
                                              !.reviewed_by = r]
                               ELSE f : f \in findings}
               /\ rresp' = [rresp EXCEPT ![r] = Response("200", rentry[r])]
               /\ answered' = answered \cup {[id |-> rentry[r], prior |-> rprior[r]]}
    /\ rpc' = [rpc EXCEPT ![r] = "idle"]
    /\ rfind' = [rfind EXCEPT ![r] = 1]
    /\ rverdict' = [rverdict EXCEPT ![r] = "innocent"]
    /\ rentry' = [rentry EXCEPT ![r] = None]
    /\ rprior' = [rprior EXCEPT ![r] = {}]
    /\ now' = now + 1
    /\ UNCHANGED <<audit, nextAuditId, recorded, directAttempts, directResult>>
    /\ UNCHANGED <<utilVars, fbVars, consent, rowLock, nextFindingId, wpc, wpat, wseen, wresult,
                   tpc, tuser, top, tseen>>

\* utils.py 507-514: time passes and finding fid falls behind the cutoff
\* (created_at < utcnow() - RETENTION_DAYS).
RetentionElapses(fid) ==
    /\ \E f \in findings : f.id = fid /\ ~f.expired
    /\ findings' = {IF f.id = fid THEN [f EXCEPT !.expired = TRUE] ELSE f : f \in findings}
    /\ UNCHANGED <<utilVars, fbVars, auditVars, consent, rowLock, nextFindingId, wpc, wpat, wseen,
                   wresult, tpc, tuser, top, tseen>>

\* utils.py 499-519: the rows of phase2_first_blood_prestige the cleanup
\* leaves in the table: it issues DELETEs against the suspicion and the
\* health-snapshot tables only ("first blood records are kept forever").
CleanupFirstBlood_expire(rows) == {r \in rows : ~r.committed}

CleanupFirstBlood(rows) == rows

\* utils.py 495-528: cleanup_old_data deletes the findings older than the
\* cutoff and commits.  The DELETE waits while an open transaction holds a
\* pending audit row referencing one of them.
cleanup_old_data ==
    LET old == {f \in findings : f.expired}
        oldIds == {f.id : f \in old}
    IN /\ old # {}
       /\ ~\E e \in audit : ~e.committed /\ e.suspicion_id \in oldIds
       /\ findings' = findings \ old
       /\ audit' = OnDeleteCascade(oldIds)
       /\ fb' = CleanupFirstBlood(fb)
       /\ UNCHANGED <<nextAuditId, now, recorded, rpc, rfind, rverdict, rentry, rresp,
                      directAttempts, directResult, answered, rprior>>
       /\ UNCHANGED <<pc, chal, ts, outcome, lockHolder, lockSupported, cache, cachedHint>>
       /\ UNCHANGED <<utilVars, consent, rowLock, nextFindingId, wpc, wpat, wseen, wresult,
                      tpc, tuser, top, tseen>>

\* redteam_f1_combined_attack.py 233-244: a direct UPDATE of an existing
\* audit row, then COMMIT.
DirectUpdate(eid) ==
    /\ directAttempts < MaxDirect
    /\ \E e \in CommittedAudit : e.id = eid
    /\ directAttempts' = directAttempts + 1
    /\ IF AuditMutationDenied
       THEN /\ directResult' = "rejected"
            /\ UNCHANGED audit
       ELSE /\ directResult' = "applied"
            /\ audit' = {IF e.id = eid
                         THEN [e EXCEPT !.verdict = "innocent", !.notes = "TAMPERED"]
                         ELSE e : e \in audit}
    /\ UNCHANGED <<nextAuditId, now, recorded, rpc, rfind, rverdict, rentry, rresp,
                   answered, rprior>>
    /\ UNCHANGED <<utilVars, fbVars, suspVars>>

\* =========================================================================
\* Library functions (utils.py, detection.py)
\* =========================================================================
NoCall == [fn |-> "none"]

\* ------------------------------------------------- signed cache, in detail
\* JSON values met in a cache payload.  A string is described by what it
\* holds: "plain" text (of = the text), the HMAC "tag" of the text of, the
\* first 32 characters ("prefix") of that tag, or a "long" run of 10000
\* characters.
JMissing == [t |-> "missing", k |-> "-", of |-> "-"]
JNull == [t |-> "null", k |-> "-", of |-> "-"]
JNumber == [t |-> "number", k |-> "-", of |-> "5"]
JStr(k, of) == [t |-> "string", k |-> k, of |-> of]

CachedValues == {"0", "1"}
JValues == {JMissing, JNull, JNumber} \cup {JStr("plain", v) : v \in CachedValues}
JSignatures ==
    {JMissing, JNull, JNumber, JStr("plain", ""), JStr("plain", "fake"), JStr("long", "-")}
        \cup {JStr("tag", v) : v \in CachedValues}
        \cup {JStr("prefix", v) : v \in CachedValues}

\* What cache.get(key) can return: nothing, text that is not JSON, JSON that
\* is not an object, or an object with (or without) value and signature.
PAbsent == [kind |-> "absent", doc |-> "-", value |-> JMissing, signature |-> JMissing]
PText == [kind |-> "text", doc |-> "not json at all", value |-> JMissing, signature |-> JMissing]
PNonObject(doc) == [kind |-> "json", doc |-> doc, value |-> JMissing, signature |-> JMissing]
PObject(v, sig) == [kind |-> "object", doc |-> "{}", value |-> v, signature |-> sig]

Payloads ==
    {PAbsent, PText}
        \cup {PNonObject(d) : d \in {"[]", "5", "null", "text"}}
        \cup {PObject(v, sig) : v \in JValues, sig \in JSignatures}

\* Python truthiness of a decoded JSON value ("not signature").
Truthy(j) == j.t = "number" \/ (j.t = "string" /\ j # JStr("plain", ""))

\* dict.get(key): a missing key reads as None, like a JSON null.
DictGet(j) == IF j = JMissing THEN JNull ELSE j

\* utils.py 180-203 sign_redis_value(value): value.encode('utf-8') raises
\* AttributeError unless value is a str; the tag is the HMAC of the text.
sign_redis_value(v) ==
    IF v.t = "string" THEN [raised |-> "no", tag |-> JStr("tag", v.of)]
    ELSE [raised |-> "AttributeError", tag |-> JNull]

\* utils.py 206-230 verify_redis_signature(value, signature): "True",
\* "False", or the name of the exception raised.  hmac.compare_digest
\* raises TypeError when signature is not a str.
verify_redis_signature_prefix(v, sig) ==
    IF ~Truthy(sig) THEN "False"
    ELSE LET expected == sign_redis_value(v) IN
         IF expected.raised # "no" THEN expected.raised
         ELSE IF sig.t # "string" THEN "TypeError"
         ELSE IF sig.k \in {"tag", "prefix"} /\ sig.of = expected.tag.of THEN "True"
         ELSE "False"

verify_redis_signature(v, sig) ==
    IF ~Truthy(sig) THEN "False"
    ELSE LET expected == sign_redis_value(v) IN
         IF expected.raised # "no" THEN expected.raised
         ELSE IF sig.t # "string" THEN "TypeError"
         ELSE IF expected.tag = sig THEN "True" ELSE "False"

\* except (json.JSONDecodeError, KeyError, TypeError)
CaughtMalformed_all == {"JSONDecodeError", "KeyError", "TypeError", "AttributeError"}

CaughtMalformed == {"JSONDecodeError", "KeyError", "TypeError"}

\* utils.py 260-305 get_signed_cache(cache, key) on a cache holding payload
\* p under key: what the call returns (ret: "None", "value", or "raise"
\* with the exception in exc) and what the cache holds afterwards.
CacheOutcome(ret, val, exc, after) == [ret |-> ret, value |-> val, exc |-> exc, cache |-> after]

Handle(exc, p) ==
    IF exc \in CaughtMalformed
    THEN CacheOutcome("None", JNull, "-", PAbsent)
    ELSE CacheOutcome("raise", JNull, exc, p)

get_signed_cache(p) ==
    IF p.kind = "absent" THEN CacheOutcome("None", JNull, "-", p)
    ELSE IF p.kind = "text" THEN Handle("JSONDecodeError", p)
    ELSE IF p.kind = "json" THEN Handle("AttributeError", p)
    ELSE LET value == DictGet(p.value)
             signature == DictGet(p.signature)
             ok == verify_redis_signature(value, signature)
         IN IF ok = "True" THEN CacheOutcome("value", value, "-", p)
            ELSE IF ok = "False" THEN CacheOutcome("None", JNull, "-", PAbsent)
            ELSE Handle(ok, p)

\* utils.py 233-257 set_signed_cache(cache, key, value): the payload stored.
set_signed_cache(v) == PObject(JStr("plain", v), sign_redis_value(JStr("plain", v)).tag)

\* The entry kinds used by the hook's model, for each payload.
PayloadKind(p) ==
    LET out == get_signed_cache(p) IN
    IF p.kind = "absent" THEN "absent"
    ELSE IF out.ret = "value" THEN "valid"
    ELSE IF out.ret = "raise" THEN "unhandled"
    ELSE IF p.kind = "object" /\ p.value.t = "string" /\ Truthy(p.signature)
              /\ p.signature.t = "string"
         THEN "forged"
    ELSE "malformed"

\* A read of the key after some party stored payload p under it.
CallGetSignedCache ==
    /\ call = NoCall
    /\ \E p \in Payloads :
        /\ call' = [fn |-> "get_signed_cache", in |-> p, out |-> get_signed_cache(p),
                    kind |-> PayloadKind(p)]
        /\ UNCHANGED <<fbVars, suspVars, auditVars>>

\* set_signed_cache followed by a read of the same key.
CallSetSignedCache ==
    /\ call = NoCall
    /\ \E v \in CachedValues :
        /\ call' = [fn |-> "set_signed_cache", in |-> v, stored |-> set_signed_cache(v),
                    out |-> get_signed_cache(set_signed_cache(v))]
        /\ UNCHANGED <<fbVars, suspVars, auditVars>>

\* ------------------------------------------------------ evidence and PII
\* Values met in a candidate's evidence: a raw IP address, a raw user-agent
\* string (described by the lowercase words the code searches in it), a
\* submission text, a number, or None.
EvNone == [t |-> "none", of |-> "-"]
EvIp(a) == [t |-> "ip", of |-> a]
EvUserAgent(words) == [t |-> "user_agent", of |-> words]
EvText(x) == [t |-> "text", of |-> x]
EvNumber(n) == [t |-> "number", of |-> n]

\* utils.py 26-47 hash_ip: None for an empty address, else the first 16
\* hex characters of its SHA-256.
hash_ip_raw(v) == v

hash_ip(v) == IF v.t = "ip" THEN [t |-> "ip_hash16", of |-> v.of] ELSE EvNone

\* utils.py 50-103 generalize_user_agent: "<browser> on <os>" from the
\* words found in the lowercased string.
BrowserOf(w) ==
    IF "chrome" \in w /\ "edg" \notin w THEN "Chrome"
    ELSE IF "firefox" \in w THEN "Firefox"
    ELSE IF "safari" \in w /\ "chrome" \notin w THEN "Safari"
    ELSE IF "edg" \in w THEN "Edge"
    ELSE IF "opera" \in w \/ "opr" \in w THEN "Opera"
    ELSE IF "msie" \in w \/ "trident" \in w THEN "Internet Explorer"
    ELSE "Unknown Browser"

OsOf(w) ==
    IF "windows" \in w THEN "Windows"
    ELSE IF "mac" \in w /\ "iphone" \notin w /\ "ipad" \notin w THEN "macOS"
    ELSE IF "linux" \in w /\ "android" \notin w THEN "Linux"
    ELSE IF "android" \in w THEN "Android"
    ELSE IF "iphone" \in w \/ "ipad" \in w THEN "iOS"
    ELSE "Unknown OS"

generalize_user_agent(v) ==
    IF v.t # "user_agent" THEN [t |-> "browser_os", of |-> <<"Unknown">>]
    ELSE [t |-> "browser_os", of |-> <<BrowserOf(v.of), "on", OsOf(v.of)>>]

\* Keys of the evidence dicts built by the three detectors (detection.py
\* 149-156, 225-232, 297-306) and what the substring tests of
\* sanitize_evidence find in them.
EvidenceKeys ==
    {"ip", "ip_1", "ip_2", "time_delta_seconds", "submission_1_id", "submission_2_id",
     "submission_1_text", "submission_2_text", "submission_text", "ua_similarity",
     "user_agent_1", "user_agent_2"}

KeyHasIp(k) == k \in {"ip", "ip_1", "ip_2"}
KeyHasUserAgent(k) == k \in {"user_agent_1", "user_agent_2"}
KeyHasSubmission(k) ==
    k \in {"submission_1_id", "submission_2_id", "submission_1_text", "submission_2_text",
           "submission_text"}
KeyHasText(k) == k \in {"submission_1_text", "submission_2_text", "submission_text"}

\* key + '_hash' and key.replace('user_agent', 'browser_os').
HashKey(k) ==
    CASE k = "ip" -> "ip_hash" [] k = "ip_1" -> "ip_1_hash" [] k = "ip_2" -> "ip_2_hash"

BrowserOsKey(k) ==
    CASE k = "user_agent_1" -> "browser_os_1" [] k = "user_agent_2" -> "browser_os_2"

EvTruthy(v) == v.t # "none"

\* utils.py 106-148 sanitize_evidence: the key and the value stored for
\* each item of the evidence dict.
SanitizedKey(k, v) ==
    IF KeyHasIp(k) /\ EvTruthy(v) THEN HashKey(k)
    ELSE IF KeyHasUserAgent(k) /\ EvTruthy(v) THEN BrowserOsKey(k)
    ELSE k

SanitizedValue(k, v) ==
    IF KeyHasIp(k) /\ EvTruthy(v) THEN hash_ip(v)
    ELSE IF KeyHasUserAgent(k) /\ EvTruthy(v) THEN generalize_user_agent(v)
    ELSE IF KeyHasSubmission(k) /\ KeyHasText(k) THEN [t |-> "redacted", of |-> "[REDACTED]"]
    ELSE v

sanitize_evidence(ev) ==
    [nk \in {SanitizedKey(k, ev[k]) : k \in DOMAIN ev} |->
        LET k == CHOOSE kk \in DOMAIN ev : SanitizedKey(kk, ev[kk]) = nk
        IN SanitizedValue(k, ev[k])]

\* Submissions the detectors pair up.
IpValues == {EvNone, EvIp("10.0.0.1"), EvIp("10.0.0.2")}
UserAgents ==
    {EvUserAgent({"mozilla", "chrome", "safari", "windows"}),
     EvUserAgent({"mozilla", "chrome", "safari", "edg", "windows"}),
     EvUserAgent({"mozilla", "firefox", "linux"}),
     EvUserAgent({"curl"})}
Texts == {EvText("flag{a}"), EvText("flag{b}")}
SubmissionRows == [ip : IpValues, provided : Texts, user_agent : UserAgents]

\* The evidence of the pattern each detector appends for a pair.
SameIpEvidence(s1, s2) ==
    [k \in {"ip", "time_delta_seconds", "submission_1_id", "submission_2_id",
            "submission_1_text", "submission_2_text"} |->
        CASE k = "ip" -> s1.ip
          [] k = "time_delta_seconds" -> EvNumber(5)
          [] k = "submission_1_id" -> EvNumber(1)
          [] k = "submission_2_id" -> EvNumber(2)
          [] k = "submission_1_text" -> s1.provided
          [] k = "submission_2_text" -> s2.provided]

DuplicateWrongEvidence(s1, s2) ==
    [k \in {"submission_text", "time_delta_seconds", "submission_1_id", "submission_2_id",
            "ip_1", "ip_2"} |->
        CASE k = "submission_text" -> s1.provided
          [] k = "time_delta_seconds" -> EvNumber(5)
          [] k = "submission_1_id" -> EvNumber(1)
          [] k = "submission_2_id" -> EvNumber(2)
          [] k = "ip_1" -> s1.ip
          [] k = "ip_2" -> s2.ip]

SimilarUaEvidence(s1, s2) ==
    [k \in {"ua_similarity", "user_agent_1", "user_agent_2", "time_delta_seconds",
            "submission_1_id", "submission_2_id", "ip_1", "ip_2"} |->
        CASE k = "ua_similarity" -> EvNumber(96)
          [] k = "user_agent_1" -> s1.user_agent
          [] k = "user_agent_2" -> s2.user_agent
          [] k = "time_delta_seconds" -> EvNumber(5)
          [] k = "submission_1_id" -> EvNumber(1)
          [] k = "submission_2_id" -> EvNumber(2)
          [] k = "ip_1" -> s1.ip
          [] k = "ip_2" -> s2.ip]

CandidateEvidence ==
    {SameIpEvidence(s1, s2) : s1 \in {x \in SubmissionRows : x.ip # EvNone},
                              s2 \in {x \in SubmissionRows : x.ip # EvNone}}
        \cup {DuplicateWrongEvidence(s1, s2) : s1 \in SubmissionRows, s2 \in SubmissionRows}
        \cup {SimilarUaEvidence(s1, s2) : s1 \in SubmissionRows, s2 \in SubmissionRows}

\* detection.py 372-389: the evidence create_suspicion_record stores for a
\* pattern is sanitize_evidence(pattern['evidence']).
CallStoreEvidence ==
    /\ call = NoCall
    /\ \E ev \in CandidateEvidence :
        /\ call' = [fn |-> "store_evidence", in |-> ev, out |-> sanitize_evidence(ev)]
        /\ UNCHANGED <<fbVars, suspVars, auditVars>>

\* ------------------------------------------------- the pipeline's query
\* detection.py 59: MAX_SUBMISSIONS.
MAX_SUBMISSIONS == 5000

\* Submissions table as the number of rows per timestamp.
QueryTimes == 1..MaxQueryTime
RowCounts == {0, 1, 2500, 4999, 5000, 5001}

\* LIMIT n applied to what is left of the budget.
ApplyLimit_none(n, budget) == n

ApplyLimit(n, budget) == IF n <= budget THEN n ELSE budget

\* detection.py 62-67: filter(date >= cutoff).order_by(date.desc())
\* .limit(MAX_SUBMISSIONS): rows read per timestamp, scanning from the most
\* recent timestamp down.
RECURSIVE ReadDesc(_, _, _, _)
ReadDesc(rows, t, cutoff, budget) ==
    IF t < cutoff \/ t < 1 THEN [x \in QueryTimes |-> 0]
    ELSE LET n == ApplyLimit(rows[t], budget)
             rest == ReadDesc(rows, t - 1, cutoff, IF budget >= n THEN budget - n ELSE 0)
         IN [rest EXCEPT ![t] = n]

RECURSIVE SumUpTo(_, _)
SumUpTo(f, t) == IF t < 1 THEN 0 ELSE f[t] + SumUpTo(f, t - 1)

\* detection.py 47-115 detect_flag_sharing_patterns up to the analysis:
\* the rows read, and whether the run went on to group and analyse them
\* (a failed query returns 0 at 76-78).
CallRecentSubmissions ==
    /\ call = NoCall
    /\ \E rows \in [QueryTimes -> RowCounts], cutoff \in QueryTimes, dbError \in BOOLEAN :
        LET read == IF dbError THEN [x \in QueryTimes |-> 0]
                    ELSE ReadDesc(rows, MaxQueryTime, cutoff, MAX_SUBMISSIONS) IN
        /\ call' = [fn |-> "recent_submissions",
                    in |-> [rows |-> rows, cutoff |-> cutoff, dbError |-> dbError],
                    out |-> [read |-> read, total |-> SumUpTo(read, MaxQueryTime),
                             analysed |-> ~dbError]]
        /\ UNCHANGED <<fbVars, suspVars, auditVars>>

\* ----------------------------------------------- confidence and threshold
\* config.py 50-53: the weights, in hundredths.
Weights ==
    [same_ip |-> 40, duplicate_wrong |-> 30, similar_ua |-> 20, temporal_proximity |-> 10]

\* utils.py 400-428 calculate_suspicion_confidence, in hundredths.
calculate_suspicion_confidence(patterns) ==
    LET w(name) == IF name \in patterns THEN Weights[name] ELSE 0
        score == w("same_ip") + w("duplicate_wrong") + w("similar_ua")
                     + w("temporal_proximity")
    IN IF score <= 100 THEN score ELSE 100

\* The detected_patterns lists the three detectors can build.
DetectedPatterns ==
    {{"same_ip", "temporal_proximity"},
     {"duplicate_wrong"}, {"duplicate_wrong", "temporal_proximity"},
     {"similar_ua"}, {"similar_ua", "temporal_proximity"}, {"similar_ua", "same_ip"},
     {"similar_ua", "temporal_proximity", "same_ip"}}

\* config.py 37: SUSPICION_THRESHOLD is read from the environment (default
\* 0.75); values an operator may set, in hundredths.
Thresholds == {30, 50, 75}

\* detection.py 106: confidence >= Phase2Config.SUSPICION_THRESHOLD.
MeetsThreshold_always(confidence, threshold) == TRUE

MeetsThreshold(confidence, threshold) == confidence >= threshold

\* detection.py 103-112: the patterns of patterns_found handed to
\* create_suspicion_record, in order.
RECURSIVE PassedOn(_, _)
PassedOn(found, threshold) ==
    IF found = <<>> THEN <<>>
    ELSE (IF MeetsThreshold(Head(found).confidence, threshold)
          THEN <<Head(found)>> ELSE <<>>) \o PassedOn(Tail(found), threshold)

Candidate(n, patterns) ==
    [id |-> n, patterns |-> patterns, confidence |-> calculate_suspicion_confidence(patterns)]

CallPersistCandidates ==
    /\ call = NoCall
    /\ \E p1 \in DetectedPatterns, p2 \in DetectedPatterns, threshold \in Thresholds :
        LET found == <<Candidate(1, p1), Candidate(2, p2)>> IN
        /\ call' = [fn |-> "persist_candidates",
                    in |-> [found |-> found, threshold |-> threshold],
                    out |-> PassedOn(found, threshold)]
        /\ UNCHANGED <<fbVars, suspVars, auditVars>>

\* ------------------------------------- the hook, one insertion at a time
\* hooks.py 47-230 run for solve s in its own transaction, with no other
\* transaction open: store = [solves, fb], entry = the cache entry kind.
\* The result is the store and the entry left behind after the commit.
SeqSolve(user, t) == [user_id |-> user, date |-> t]

EarlierSolveIn(solves, s) ==
    \E q \in solves :
        \/ q.date < s.date
        \/ (q.date = s.date /\ q.user_id < s.user_id)

on_solve_inserted(st, s) ==
    LET solves == st.solves \cup {s}
        hint == GetSignedCacheResult(st.cache)
        afterRead == GetSignedCacheAfter(st.cache)
    IN IF hint = "raise"
       THEN [solves |-> solves, fb |-> st.fb, cache |-> afterRead]
       ELSE IF st.fb # {}
       THEN [solves |-> solves, fb |-> st.fb, cache |-> "valid"]
       ELSE IF EarlierSolveIn(solves, s)
       THEN [solves |-> solves, fb |-> st.fb, cache |-> "valid"]
       ELSE [solves |-> solves, fb |-> {s}, cache |-> "valid"]

RECURSIVE InsertAll(_, _)
InsertAll(st, seq) ==
    IF seq = <<>> THEN st
    ELSE InsertAll(on_solve_inserted(st, Head(seq)), Tail(seq))

\* Sequences of solves of one challenge by distinct users.
SolveSequences ==
    {<<SeqSolve(1, t)>> : t \in Times}
        \cup {<<SeqSolve(u, t1), SeqSolve(3 - u, t2)>> : u \in {1, 2}, t1 \in Times, t2 \in Times}

\* The same insertions on the same store under two cache contents.
CallSolveSequence ==
    /\ call = NoCall
    /\ \E c1 \in CacheKinds, c2 \in CacheKinds, seq \in SolveSequences :
        LET st(c) == [solves |-> {}, fb |-> {}, cache |-> c] IN
        /\ call' = [fn |-> "solve_sequence", in |-> <<c1, c2, seq>>,
                    out1 |-> InsertAll(st(c1), seq).fb,
                    out2 |-> InsertAll(st(c2), seq).fb]
        /\ UNCHANGED <<fbVars, suspVars, auditVars>>

\* ------------------------------------------------- verdict history read
\* The audit rows of one finding as the number of rows per creation time.
HistoryCounts == {0, 1, 99, 100, 101}

\* models.py 517-522: filter_by(suspicion_id).order_by(created_at.asc())
\* .limit(limit): rows returned per creation time, scanning from the oldest.
RECURSIVE ReadAsc(_, _, _)
ReadAsc(rows, t, budget) ==
    IF t > MaxQueryTime THEN [x \in QueryTimes |-> 0]
    ELSE LET n == ApplyLimit(rows[t], budget)
             rest == ReadAsc(rows, t + 1, IF budget >= n THEN budget - n ELSE 0)
         IN [rest EXCEPT ![t] = n]

\* models.py 506-522 get_history called as the readers of the trail call
\* it: with the default limit (test_audit_immutability.py 70).
CallGetHistory ==
    /\ call = NoCall
    /\ \E rows \in [QueryTimes -> HistoryCounts] :
        /\ call' = [fn |-> "get_history",
                    in |-> [rows |-> rows, limit |-> DefaultHistoryLimit],
                    out |-> ReadAsc(rows, 1, DefaultHistoryLimit)]
        /\ UNCHANGED <<fbVars, suspVars, auditVars>>

\* ------------------------------------------------ first-blood leaderboard
\* Rows of phase2_first_blood_prestige as the leaderboard query reads them:
\* user_id and team_id are nullable (models.py 61-72), prestige_score is
\* what calculate_prestige_score gave for the challenge's value.
BoardPrestige == {calculate_prestige_score(v) : v \in {0, 201}}
BoardRows == [user_id : {None} \cup Users, team_id : {None, 1}, prestige_score : BoardPrestige]
BoardTables == UNION {[1..n -> BoardRows] : n \in 0..MaxBoardRows}
BoardLimits == {0, 1, 2, 100}

\* utils.py 551-557, 574-580: the grouping column and the IS NOT NULL filter.
GroupColumn(row, team_mode) == IF team_mode THEN row.team_id ELSE row.user_id
BoardGroups(tbl, team_mode) ==
    {GroupColumn(tbl[i], team_mode) : i \in DOMAIN tbl} \ {None}

\* utils.py 552, 575: func.sum(prestige_score) of a group.
RECURSIVE SumPrestige(_, _, _, _)
SumPrestige(tbl, team_mode, g, n) ==
    IF n < 1 THEN 0
    ELSE (IF GroupColumn(tbl[n], team_mode) = g THEN tbl[n].prestige_score ELSE 0)
             + SumPrestige(tbl, team_mode, g, n - 1)

\* utils.py 553, 576: func.count(id) of a group.
CountRecords(tbl, team_mode, g) ==
    Cardinality({i \in DOMAIN tbl : GroupColumn(tbl[i], team_mode) = g})

\* utils.py 558-560, 581-583: ORDER BY sum(prestige_score) DESC.
OrderBySum_asc(a, b) == a <= b

OrderBySum(a, b) == a >= b

\* The orders in which the store may return the groups: any arrangement
\* that respects the ORDER BY (groups with equal sums come in any order).
BoardOrders(tbl, team_mode) ==
    LET gs == BoardGroups(tbl, team_mode)
        k == Cardinality(gs)
        total(g) == SumPrestige(tbl, team_mode, g, Len(tbl))
    IN {o \in [1..k -> gs] :
           /\ \A i, j \in 1..k : i # j => o[i] # o[j]
           /\ \A i, j \in 1..k : i < j => OrderBySum(total(o[i]), total(o[j]))}

\* utils.py 536-598 get_first_blood_leaderboard: the first `limit` groups
\* in the store's order, numbered from 1; [] when the query raised.
get_first_blood_leaderboard(tbl, limit, team_mode, order, dbError) ==
    IF dbError THEN <<>>
    ELSE LET k == IF Len(order) <= limit THEN Len(order) ELSE limit
         IN [i \in 1..k |->
                [rank |-> i,
                 id |-> order[i],
                 total_prestige |-> SumPrestige(tbl, team_mode, order[i], Len(tbl)),
                 first_bloods |-> CountRecords(tbl, team_mode, order[i])]]

CallLeaderboard ==
    /\ call = NoCall
    /\ \E tbl \in BoardTables, limit \in BoardLimits, team_mode \in BOOLEAN,
          dbError \in BOOLEAN :
        \E order \in BoardOrders(tbl, team_mode) :
        /\ call' = [fn |-> "get_first_blood_leaderboard",
                    in |-> [rows |-> tbl, limit |-> limit, team_mode |-> team_mode,
                            dbError |-> dbError],
                    out |-> get_first_blood_leaderboard(tbl, limit, team_mode, order,
                                                        dbError)]
        /\ UNCHANGED <<fbVars, suspVars, auditVars>>

\* ------------------------------------------------- the prestige stored
\* hooks.py 168-171: what "SELECT value FROM challenges WHERE id = :id"
\* returns: no row, a row with a NULL value, a row with a value.
ChallengeLookup(found, isNull, value) == [found |-> found, isNull |-> isNull, value |-> value]
PointValues == {-50, 0, 1, 99, 100, 201, 500}
ChallengeLookups ==
    {ChallengeLookup(FALSE, FALSE, 0), ChallengeLookup(TRUE, TRUE, 0)}
        \cup {ChallengeLookup(TRUE, FALSE, v) : v \in PointValues}

\* hooks.py 173: challenge_value = challenge[0] if challenge else 100.
ChallengeValueRead(lookup) ==
    IF lookup.found THEN (IF lookup.isNull THEN None ELSE lookup.value) ELSE 100

\* hooks.py 167-194: the :prestige parameter of the INSERT.
CallPrestige ==
    /\ call = NoCall
    /\ \E lookup \in ChallengeLookups :
        /\ call' = [fn |-> "prestige", in |-> lookup,
                    out |-> calculate_prestige_score(ChallengeValueRead(lookup))]
        /\ UNCHANGED <<fbVars, suspVars, auditVars>>

\* ---------------------------------------------------- the detection passes
\* config.py 56 and 59 (the ratio in hundredths), config.py 37 (default of
\* SUSPICION_THRESHOLD, in hundredths).
TEMPORAL_WINDOW_SECONDS == 60
UA_SIMILARITY_THRESHOLD == 95
DefaultThreshold == 75

\* Submissions.provided: a text with its letter case and its surrounding
\* whitespace.
Provided(core, upper, padded) == [core |-> core, upper |-> upper, padded |-> padded]

\* detection.py 199: sub.provided.strip().lower().
NormalizeProvided(p) == [p EXCEPT !.upper = FALSE, !.padded = FALSE]

\* Client signatures: two that differ in one character of 25, one unrelated.
AgentLength(ua) == IF ua = "curl/8.0" THEN 8 ELSE 25
AgentDistance(a, b) == IF "curl/8.0" \in {a, b} THEN 25 ELSE 1

\* utils.py 454-492 levenshtein_ratio, in hundredths.
levenshtein_ratio(a, b) ==
    IF a = "" \/ b = "" THEN 0
    ELSE IF a = b THEN 100
    ELSE LET max_len == IF AgentLength(a) >= AgentLength(b)
                        THEN AgentLength(a) ELSE AgentLength(b)
         IN 100 - (100 * AgentDistance(a, b)) \div max_len

\* Rows of the submissions table the passes work on.
DetectIps == {"", "10.0.0.1", "10.0.0.2"}
DetectTexts == {Provided("flag{x}", FALSE, FALSE), Provided("flag{x}", TRUE, TRUE),
                Provided("flag{y}", FALSE, FALSE)}
DetectAgents == {"", "Mozilla/5.0 Firefox/120.0", "Mozilla/5.0 Firefox/121.0", "curl/8.0"}
DetectDeltas == {0, 60, 61}
DetectRows ==
    [user_id : Users, ip : DetectIps, type : {"correct", "incorrect", "discard"},
     provided : DetectTexts, user_agent : DetectAgents]

\* The row with its id and date: the list handed to the passes is ordered by
\* date descending (detection.py 66), all rows of one challenge (80-83).
Submission(row, id, date) ==
    [id |-> id, date |-> date, challenge_id |-> 1, user_id |-> row.user_id, ip |-> row.ip,
     type |-> row.type, provided |-> row.provided, user_agent |-> row.user_agent]

TimeDelta(s1, s2) == IF s2.date >= s1.date THEN s2.date - s1.date ELSE s1.date - s2.date

\* detection.py 147, 213, 273: "Skip if same user".
SameUser_never(s1, s2) == FALSE

SameUser(s1, s2) == s1.user_id = s2.user_id

\* The pattern dict a pass appends.
Pattern(s1, s2, detection_type, detected_patterns) ==
    [user_id_1 |-> s1.user_id, user_id_2 |-> s2.user_id, challenge_id |-> s1.challenge_id,
     detection_type |-> detection_type, detected |-> detected_patterns,
     confidence |-> calculate_suspicion_confidence(detected_patterns),
     submission_1_id |-> s1.id, submission_2_id |-> s2.id]

\* detection.py 118-173 on a list of two submissions.
detect_same_ip_pattern(s1, s2) ==
    IF /\ s1.ip # "" /\ s2.ip # "" /\ s1.ip = s2.ip
       /\ ~SameUser(s1, s2)
       /\ TimeDelta(s1, s2) <= TEMPORAL_WINDOW_SECONDS
    THEN <<Pattern(s1, s2, "same_ip", {"same_ip", "temporal_proximity"})>>
    ELSE <<>>

\* detection.py 176-242 on a list of two submissions.
detect_duplicate_wrong_pattern(s1, s2) ==
    IF /\ s1.type # "correct" /\ s2.type # "correct"
       /\ NormalizeProvided(s1.provided) = NormalizeProvided(s2.provided)
       /\ ~SameUser(s1, s2)
    THEN <<Pattern(s1, s2, "duplicate_wrong",
                   {"duplicate_wrong"} \cup
                   (IF TimeDelta(s1, s2) <= TEMPORAL_WINDOW_SECONDS
                    THEN {"temporal_proximity"} ELSE {}))>>
    ELSE <<>>

\* detection.py 245-312 on a list of two submissions.
detect_similar_ua_pattern(s1, s2) ==
    IF /\ s1.user_agent # "" /\ s2.user_agent # ""
       /\ ~SameUser(s1, s2)
       /\ levenshtein_ratio(s1.user_agent, s2.user_agent) >= UA_SIMILARITY_THRESHOLD
    THEN <<Pattern(s1, s2, "similar_ua",
                   {"similar_ua"} \cup
                   (IF TimeDelta(s1, s2) <= TEMPORAL_WINDOW_SECONDS
                    THEN {"temporal_proximity"} ELSE {}) \cup
                   (IF s1.ip = s2.ip THEN {"same_ip"} ELSE {}))>>
    ELSE <<>>

\* detection.py 92-102: patterns_found for one challenge.
PatternsFound(s1, s2) ==
    detect_same_ip_pattern(s1, s2) \o detect_duplicate_wrong_pattern(s1, s2)
        \o detect_similar_ua_pattern(s1, s2)

CallDetect ==
    /\ call = NoCall
    /\ \E r1 \in DetectRows, r2 \in DetectRows, delta \in DetectDeltas :
        LET s1 == Submission(r1, 1, delta)
            s2 == Submission(r2, 2, 0) IN
        /\ call' = [fn |-> "detect", in |-> <<s1, s2>>, out |-> PatternsFound(s1, s2)]
        /\ UNCHANGED <<fbVars, suspVars, auditVars>>

\* ------------------------------------------------------ a pipeline run
\* The patterns_found lists the passes produce.
FoundLists ==
    {PatternsFound(Submission(r1, 1, delta), Submission(r2, 2, 0)) :
        r1 \in DetectRows, r2 \in DetectRows, delta \in DetectDeltas}

\* detection.py 376-387: the row create_suspicion_record adds for a pattern.
SuspicionRow(pattern) ==
    [user_id_1 |-> pattern.user_id_1, user_id_2 |-> pattern.user_id_2,
     challenge_id |-> pattern.challenge_id, detection_type |-> pattern.detection_type,
     submission_1_id |-> pattern.submission_1_id,
     submission_2_id |-> pattern.submission_2_id]

\* detection.py 343-404 create_suspicion_record, one call with no other
\* session at work: the row is added when both consent rows read as granted
\* and the store accepts the INSERT; every other path returns None (the
\* handler at 401-404 catches whatever was raised).
Created(pattern, consentOf, dbError) ==
    /\ ~ConsentDenied(consentOf[pattern.user_id_1])
    /\ ~ConsentDenied(consentOf[pattern.user_id_2])
    /\ ~dbError

\* detection.py 85, 104-115: the loop over patterns_found.  The counter is
\* incremented after every call that returns, whatever it returned.
RECURSIVE PersistLoop(_, _, _, _, _)
PersistLoop(passed, consentOf, dbError, table, suspicions_created) ==
    IF passed = <<>> THEN [table |-> table, returned |-> suspicions_created]
    ELSE PersistLoop(Tail(passed), consentOf, dbError,
                     IF Created(Head(passed), consentOf, dbError)
                     THEN Append(table, SuspicionRow(Head(passed))) ELSE table,
                     suspicions_created + 1)

\* detection.py 33-115 detect_flag_sharing_patterns on a window whose
\* submissions give patterns_found = found; table is the suspicion table.
detect_flag_sharing_patterns(found, threshold, consentOf, dbError, table) ==
    PersistLoop(PassedOn(found, threshold), consentOf, dbError, table, 0)

\* workers.py 75-83 and detection.py 53-55: the run is scheduled every
\* ANALYTICS_INTERVAL_SECONDS and scans the last two intervals, so two
\* consecutive runs read the same recent submissions.
CallRuns ==
    /\ call = NoCall
    /\ \E found \in FoundLists, threshold \in Thresholds,
          consentOf \in [Users -> {"absent", "granted", "withdrawn"}], dbError \in BOOLEAN :
        LET first == detect_flag_sharing_patterns(found, threshold, consentOf, dbError, <<>>)
            second == detect_flag_sharing_patterns(found, threshold, consentOf, FALSE,
                                                   first.table) IN
        /\ call' = [fn |-> "runs",
                    in |-> [found |-> found, threshold |-> threshold,
                            consentOf |-> consentOf, dbError |-> dbError],
                    out |-> <<first, second>>]
        /\ UNCHANGED <<fbVars, suspVars, auditVars>>

\* =========================================================================
\* Specifications
\* =========================================================================
InitFBVars ==
    /\ pc = [p \in Procs |-> "idle"]
    /\ chal = [p \in Procs |-> 1]
    /\ ts = [p \in Procs |-> 1]
    /\ outcome = [p \in Procs |-> "none"]
    /\ fb = {}
    /\ lockHolder = [c \in Challenges |-> None]
    /\ cache = [c \in Challenges |-> "absent"]
    /\ cachedHint = [p \in Procs |-> NoHint]

InitSuspVars ==
    /\ rowLock = [u \in Users |-> NoSession]
    /\ findings = {}
    /\ nextFindingId = 1
    /\ wpc = [w \in Workers |-> "idle"]
    /\ wpat = [w \in Workers |-> NoPattern]
    /\ wseen = [w \in Workers |-> Unread]
    /\ wresult = [w \in Workers |-> "pending"]
    /\ tpc = [t \in Togglers |-> "idle"]
    /\ tuser = [t \in Togglers |-> 1]
    /\ top = [t \in Togglers |-> "grant"]
    /\ tseen = [t \in Togglers |-> "absent"]

InitAuditVars ==
    /\ audit = {}
    /\ nextAuditId = 1
    /\ now = 1
    /\ recorded = [fid \in FindingIds |-> 0]
    /\ rpc = [r \in Reviewers |-> "idle"]
    /\ rfind = [r \in Reviewers |-> 1]
    /\ rverdict = [r \in Reviewers |-> "innocent"]
    /\ rentry = [r \in Reviewers |-> None]
    /\ rresp = [r \in Reviewers |-> Response("none", None)]
    /\ directAttempts = 0
    /\ directResult = "none"
    /\ answered = {}
    /\ rprior = [r \in Reviewers |-> {}]
    /\ call = NoCall

\* ---- first-blood engine: concurrent solve insertions, cache environment
Init ==
    /\ InitFBVars
    /\ lockSupported \in BOOLEAN
    /\ InitSuspVars
    /\ consent = [u \in Users |-> "absent"]
    /\ InitAuditVars

Next ==
    \/ \E p \in Procs : BeginSolve(p)
    \/ \E p \in Procs : HookCacheRead(p)
    \/ \E p \in Procs : HookGetLock(p)
    \/ \E p \in Procs : HookCheckExisting(p)
    \/ \E p \in Procs : HookCheckEarlier(p)
    \/ \E p \in Procs : HookInsert(p)
    \/ \E p \in Procs : HookReleaseLock(p)
    \/ \E p \in Procs : HookOuterExcept(p)
    \/ \E p \in Procs : CommitSolve(p)
    \/ \E p \in Procs : RollbackSolve(p)
    \/ \E p \in Procs : ConnectionClose(p)
    \/ \E c \in Challenges : CacheExpire(c)
    \/ \E c \in Challenges : CachePoison(c)

Spec == Init /\ [][Next]_vars

\* ---- consent ledger: pipeline sessions against grant/withdraw requests
InitConsent ==
    /\ InitFBVars
    /\ lockSupported = TRUE
    /\ InitSuspVars
    /\ consent \in [Users -> {"absent", "granted", "withdrawn"}]
    /\ InitAuditVars

NextConsent ==
    \/ \E w \in Workers : WorkerBegin(w)
    \/ \E w \in Workers : CreateBegin(w)
    \/ \E w \in Workers : CreateLock1(w)
    \/ \E w \in Workers : CreateLock2(w)
    \/ \E w \in Workers : CreateLockFail(w)
    \/ \E w \in Workers : CreateInsert(w)
    \/ \E w \in Workers : WorkerEnd(w)
    \/ \E t \in Togglers : ToggleRead(t)
    \/ \E t \in Togglers : ToggleFlush(t)
    \/ \E t \in Togglers : ToggleCommit(t)
    \/ \E t \in Togglers : ToggleTimeout(t)

SpecConsent == InitConsent /\ [][NextConsent]_vars

\* ---- audit trail: reviewers and the retention cleanup on a store that
\* already holds findings persisted by earlier pipeline runs
StoredFinding(fid) ==
    [id |-> fid, user_id_1 |-> 1, user_id_2 |-> 2, admin_verdict |-> "pending",
     reviewed_by |-> None, reviewed_at |-> None, expired |-> FALSE,
     seen |-> <<"granted", "granted">>, raced |-> FALSE]

InitAudit ==
    /\ InitFBVars
    /\ lockSupported = TRUE
    /\ rowLock = [u \in Users |-> NoSession]
    /\ \E k \in FindingIds :
          /\ findings = {StoredFinding(fid) : fid \in 1..k}
          /\ nextFindingId = k + 1
    /\ wpc = [w \in Workers |-> "idle"]
    /\ wpat = [w \in Workers |-> NoPattern]
    /\ wseen = [w \in Workers |-> Unread]
    /\ wresult = [w \in Workers |-> "pending"]
    /\ tpc = [t \in Togglers |-> "idle"]
    /\ tuser = [t \in Togglers |-> 1]
    /\ top = [t \in Togglers |-> "grant"]
    /\ tseen = [t \in Togglers |-> "absent"]
    /\ consent = [u \in Users |-> "granted"]
    /\ InitAuditVars

NextAudit ==
    \/ \E r \in Reviewers : ReviewBegin(r)
    \/ \E r \in Reviewers : ReviewFlush(r)
    \/ \E r \in Reviewers : ReviewRecordCommit(r)
    \/ \E r \in Reviewers : ReviewUpdate(r)
    \/ \E fid \in FindingIds : RetentionElapses(fid)
    \/ cleanup_old_data

SpecAudit == InitAudit /\ [][NextAudit]_vars

\* ---- audit trail with direct statements against the audit table
NextTamper ==
    \/ \E r \in Reviewers : ReviewBegin(r)
    \/ \E r \in Reviewers : ReviewFlush(r)
    \/ \E r \in Reviewers : ReviewRecordCommit(r)
    \/ \E r \in Reviewers : ReviewUpdate(r)
    \/ \E fid \in FindingIds : RetentionElapses(fid)
    \/ cleanup_old_data
    \/ \E eid \in 1..MaxAudit : DirectUpdate(eid)

SpecTamper == InitAudit /\ [][NextTamper]_vars

\* ---- first-blood engine next to the retention cleanup, on a store that
\* holds findings older than the retention period
InitLifecycle ==
    /\ InitFBVars
    /\ lockSupported \in BOOLEAN
    /\ rowLock = [u \in Users |-> NoSession]
    /\ \E k \in FindingIds :
          /\ findings = {[StoredFinding(fid) EXCEPT !.expired = TRUE] : fid \in 1..k}
          /\ nextFindingId = k + 1
    /\ wpc = [w \in Workers |-> "idle"]
    /\ wpat = [w \in Workers |-> NoPattern]
    /\ wseen = [w \in Workers |-> Unread]
    /\ wresult = [w \in Workers |-> "pending"]
    /\ tpc = [t \in Togglers |-> "idle"]
    /\ tuser = [t \in Togglers |-> 1]
    /\ top = [t \in Togglers |-> "grant"]
    /\ tseen = [t \in Togglers |-> "absent"]
    /\ consent = [u \in Users |-> "granted"]
    /\ InitAuditVars

NextLifecycle ==
    \/ Next
    \/ cleanup_old_data

SpecLifecycle == InitLifecycle /\ [][NextLifecycle]_vars

\* ---- library functions called on inputs drawn from their domains
\* The caller takes the result; the next call can be made.
CallReturn ==
    /\ call # NoCall
    /\ call' = NoCall
    /\ UNCHANGED <<fbVars, suspVars, auditVars>>

NextLib ==
    \/ CallReturn
    \/ CallGetSignedCache
    \/ CallSetSignedCache
    \/ CallStoreEvidence
    \/ CallRecentSubmissions
    \/ CallPersistCandidates
    \/ CallSolveSequence
    \/ CallLeaderboard
    \/ CallGetHistory
    \/ CallPrestige

InitLib ==
    /\ InitFBVars
    /\ lockSupported = TRUE
    /\ InitSuspVars
    /\ consent = [u \in Users |-> "absent"]
    /\ InitAuditVars

SpecLib == InitLib /\ [][NextLib]_vars

\* ---- the detection passes and the pipeline run on submissions drawn from
\* their domains
NextDetect ==
    \/ CallReturn
    \/ CallDetect
    \/ CallRuns

SpecDetect == InitLib /\ [][NextDetect]_vars

\* ---- pipeline sessions of several application processes (each process
\* starts its own scheduler, workers.py 27-49) persisting candidates at the
\* same time
Sessions == 1..NumSessions

InitPipeline ==
    /\ InitFBVars
    /\ lockSupported = TRUE
    /\ rowLock = [u \in Users |-> NoSession]
    /\ findings = {}
    /\ nextFindingId = 1
    /\ wpc = [w \in Sessions |-> "idle"]
    /\ wpat = [w \in Sessions |-> NoPattern]
    /\ wseen = [w \in Sessions |-> Unread]
    /\ wresult = [w \in Sessions |-> "pending"]
    /\ tpc = [t \in Togglers |-> "idle"]
    /\ tuser = [t \in Togglers |-> 1]
    /\ top = [t \in Togglers |-> "grant"]
    /\ tseen = [t \in Togglers |-> "absent"]
    /\ consent \in [Users -> {"absent", "granted", "withdrawn"}]
    /\ InitAuditVars

NextPipeline ==
    \/ \E w \in Sessions : WorkerBegin(w)
    \/ \E w \in Sessions : CreateBegin(w)
    \/ \E w \in Sessions : CreateLock1(w)
    \/ \E w \in Sessions : CreateLock2(w)
    \/ \E w \in Sessions : CreateLockFail(w)
    \/ \E w \in Sessions : CreateInsert(w)
    \/ \E w \in Sessions : WorkerEnd(w)

SpecPipeline == InitPipeline /\ [][NextPipeline]_vars
\* =========================================================================
\* Properties
\* =========================================================================
FBRows(c) == {r \in fb : r.challenge_id = c}
CommittedFB(c) == {r \in fb : r.challenge_id = c /\ r.committed}
SolversOf(c) == {p \in Procs : SolveCommitted(p) /\ chal[p] = c}
AllSolvesDone == \A p \in Procs : pc[p] = "done"
HookFailures == {"cache_error", "query_error", "insert_error", "inserted_then_error"}

\* C1: in every reachable state the store holds at most one first-blood row
\* per challenge id (pending rows included), whether the advisory lock was
\* acquired, timed out or is unsupported.
Thm_C1_AtMostOnePerChallenge ==
    \A c \in Challenges : Cardinality(FBRows(c)) <= 1

\* C1 witness: two solves of one challenge went through the hook, one
\* inserted the row and the other met the uniqueness violation.
Wit_C1_UniqueViolationHit ==
    \E p, q \in Procs :
        /\ p # q /\ chal[p] = chal[q]
        /\ outcome[p] = "inserted" /\ outcome[q] = "unique"
        /\ pc[p] = "done" /\ pc[q] = "done"

\* C2: once all N >= 1 solve insertions have completed, every challenge that
\* was solved has exactly one first-blood row.
Cex_C2_ExactlyOneAfterAll ==
    AllSolvesDone =>
        \A c \in Challenges : SolversOf(c) # {} => Cardinality(CommittedFB(c)) = 1

\* C3: for two completed solves of one challenge with timestamps t1 < t2
\* the first-blood row names the solve at t1, never the one at t2.
Cex_C3_EarlierTimestampWins ==
    \A p, q \in Procs :
        (pc[p] = "done" /\ pc[q] = "done" /\ chal[p] = chal[q] /\ ts[p] < ts[q])
            => \A r \in CommittedFB(chal[p]) : r.solve_id # q

\* C4: when all completed solves of a challenge share one timestamp, the
\* first-blood row names the solve with the lowest user id.
Cex_C4_LowestUserWinsTie ==
    \A c \in Challenges :
        (AllSolvesDone /\ \A p, q \in SolversOf(c) : ts[p] = ts[q])
            => \A r \in CommittedFB(c) :
                   \A p \in SolversOf(c) : r.user_id <= UserOf(p)

Thm_C6_ConsentGate ==
    [][ /\ \A f \in findings' :
              /\ f.seen[1] = "granted"
              /\ f.user_id_2 # None => f.seen[2] = "granted"
        /\ \A w \in Workers :
              /\ (wpc[w] = "lock1" /\ wpc'[w] # "lock1"
                     /\ consent[wpat[w][1]] # "granted")
                    => (wresult'[w] = "None" /\ findings' = findings)
              /\ (wpc[w] = "lock2" /\ wpc'[w] # "lock2"
                     /\ consent[wpat[w][2]] # "granted")
                    => (wresult'[w] = "None" /\ findings' = findings)
              /\ (wpc[w] # "loop" /\ wpc'[w] = "loop" /\ wresult'[w] = "None")
                    => findings' = findings
      ]_vars

\* C6 witness: a finding on two users was persisted after both rows were
\* read as granted.
Wit_C6_TwoUserFindingPersisted ==
    \E f \in findings : f.user_id_2 # None /\ f.seen = <<"granted", "granted">>

Cex_C8_AuditEntriesPersist ==
    [][ \A e \in CommittedAudit : e \in audit' ]_vars

\* C9: after N completed recordings for a finding the trail holds exactly N
\* entries for it, with distinct ids, and get_history returns them in
\* creation order.
Cex_C9_ExactlyNEntries ==
    \A fid \in FindingIds :
        LET h == get_history(fid, DefaultHistoryLimit) IN
        /\ Len(h) = recorded[fid]
        /\ \A i, j \in 1..Len(h) : i # j => h[i].id # h[j].id
        /\ \A i, j \in 1..Len(h) : i < j => h[i].created_at <= h[j].created_at

\* C10: a direct UPDATE of an existing audit row is rejected by the store
\* and leaves the table unchanged.
Cex_C10_DirectMutationRejected ==
    [][ directAttempts' # directAttempts
            => (directResult' = "rejected" /\ audit' = audit) ]_vars

\* Audit rows with the given id.
EntryById(rows, eid) == {e \in rows : e.id = eid}

Cex_C12_RecordUpdatesConvenience ==
    [][ \A r \in Reviewers :
          (rpc[r] = "record_commit" /\ rpc'[r] = "update") =>
              \E f \in findings' : f.id = rfind[r] /\ f.admin_verdict = rverdict[r]
      ]_vars

\* C13: a request whose recording fails is answered with a server error,
\* and every success response carries the id of a stored audit entry with
\* the submitted verdict for the submitted finding.
Thm_C13_NoSuccessWithoutEntry ==
    [][ \A r \in Reviewers :
          /\ (rpc[r] \in {"record", "record_commit"} /\ rpc'[r] = "idle")
                => rresp'[r].status = "500"
          /\ (rpc[r] # "idle" /\ rpc'[r] = "idle" /\ rresp'[r].status = "200")
                => \E e \in audit' :
                      /\ e.committed
                      /\ e.id = rresp'[r].audit_entry_id
                      /\ e.verdict = rverdict[r]
                      /\ e.suspicion_id = rfind[r]
      ]_vars

\* C13 witness: a request was answered 500 and the audit table never got a
\* row: its recording failed.
Wit_C13_RecordingFailed ==
    \E r \in Reviewers : rresp[r].status = "500" /\ nextAuditId = 1 /\ audit = {}

\* C20: a request with a verdict outside innocent / suspicious / confirmed
\* is answered 400, adds no audit entry and changes no finding; no stored
\* entry or finding ever carries such a verdict.
Thm_C20_InvalidVerdictRejected ==
    [][ /\ \A r \in Reviewers :
              (rresp'[r].status = "400" /\ rresp'[r] # rresp[r])
                  => (audit' = audit /\ findings' = findings)
        /\ \A r \in Reviewers :
              rpc'[r] # "idle" => rverdict'[r] \in {"innocent", "suspicious", "confirmed"}
        /\ \A e \in audit' : e.verdict \in {"innocent", "suspicious", "confirmed"}
        /\ \A f \in findings' :
              f.admin_verdict \in {"pending", "innocent", "suspicious", "confirmed"}
      ]_vars

\* C20 witness: a review request was answered with the client error while
\* the audit table was empty.
Wit_C20_ClientError ==
    \E r \in Reviewers : rresp[r].status = "400" /\ audit = {}

\* A payload whose signature is a non-empty string that is not the tag of
\* its (string) value: made up, taken from another value, or cut short.
IsForged(p) ==
    /\ p.kind = "object"
    /\ p.value.t = "string"
    /\ p.signature.t = "string"
    /\ p.signature # JStr("plain", "")
    /\ p.signature # JStr("tag", p.value.of)

\* A malformed payload: not JSON, JSON that is not an object, an object
\* without value or without signature, a null, empty or oversized signature.
IsMalformed(p) ==
    \/ p.kind \in {"text", "json"}
    \/ /\ p.kind = "object"
       /\ \/ p.value = JMissing
          \/ p.signature \in {JMissing, JNull, JStr("plain", ""), JStr("long", "-")}

\* C14: for a payload with a forged, replayed or truncated signature
\* get_signed_cache returns None and the entry is deleted.
Thm_C14_ForgedNeverValid ==
    (call.fn = "get_signed_cache" /\ IsForged(call.in)) =>
        (call.out.ret = "None" /\ call.out.cache = PAbsent)

\* C14 witness: the tag of "1" cut to its first 32 characters, presented
\* with the value "1", was read and rejected.
Wit_C14_TruncatedRejected ==
    /\ call.fn = "get_signed_cache"
    /\ call.in = PObject(JStr("plain", "1"), JStr("prefix", "1"))
    /\ call.out.ret = "None"

\* C15: for every malformed payload get_signed_cache returns None without
\* raising and the entry is deleted.
Cex_C15_MalformedHandled ==
    (call.fn = "get_signed_cache" /\ IsMalformed(call.in)) =>
        (call.out.ret = "None" /\ call.out.cache = PAbsent)

\* C16: the same insertions on the same store leave the same first-blood
\* rows whatever the cache held at the start.
Cex_C16_CacheNeverDecides ==
    call.fn = "solve_sequence" => call.out1 = call.out2

\* C17: in the evidence stored for a finding no value is a raw IP address,
\* a raw user-agent string or a submission text: every IP of the candidate
\* is there as its hash, every user-agent as its browser-on-OS label, every
\* submission text as the redaction marker.
Thm_C17_EvidenceSanitized ==
    call.fn = "store_evidence" =>
        /\ \A k \in DOMAIN call.out : call.out[k].t \notin {"ip", "user_agent", "text"}
        /\ \A k \in DOMAIN call.in :
              /\ call.in[k].t = "ip" =>
                    \E nk \in DOMAIN call.out :
                        call.out[nk] = [t |-> "ip_hash16", of |-> call.in[k].of]
              /\ call.in[k].t = "user_agent" =>
                    \E nk \in DOMAIN call.out :
                        call.out[nk].t = "browser_os" /\ Len(call.out[nk].of) = 3
              /\ call.in[k].t = "text" =>
                    call.out[k] = [t |-> "redacted", of |-> "[REDACTED]"]

\* C17 witness: evidence with two IP addresses and a submission text was
\* stored.
Wit_C17_IpAndTextStored ==
    /\ call.fn = "store_evidence"
    /\ "ip_1" \in DOMAIN call.in /\ "submission_text" \in DOMAIN call.in
    /\ call.in["ip_1"].t = "ip" /\ call.in["ip_2"].t = "ip"
    /\ "ip_1_hash" \in DOMAIN call.out

\* C18: a run reads at most 5000 submission rows; when more qualify, the
\* rows read are the most recent ones (a row is left out only if no older
\* row is read) and the run goes on to analyse them.
Thm_C18_RowCeiling ==
    call.fn = "recent_submissions" =>
        /\ call.out.total <= 5000
        /\ \A t \in QueryTimes : call.out.read[t] <= call.in.rows[t]
        /\ \A t \in QueryTimes : t < call.in.cutoff => call.out.read[t] = 0
        /\ ~call.in.dbError =>
              /\ call.out.analysed
              /\ \A t \in QueryTimes :
                    (t >= call.in.cutoff /\ call.out.read[t] < call.in.rows[t]) =>
                        /\ call.out.total = 5000
                        /\ \A older \in QueryTimes : older < t => call.out.read[older] = 0

\* C18 witness: more than 5000 rows fell inside the window and 5000 were
\* read and analysed.
Wit_C18_CeilingHit ==
    /\ call.fn = "recent_submissions"
    /\ call.in.cutoff = 1
    /\ SumUpTo(call.in.rows, MaxQueryTime) > 5000
    /\ call.out.total = 5000
    /\ call.out.analysed

\* C19: every candidate handed to create_suspicion_record has a confidence
\* at or above the threshold, and no candidate below it is handed on.
Thm_C19_ThresholdGate ==
    call.fn = "persist_candidates" =>
        /\ \A i \in 1..Len(call.out) : call.out[i].confidence >= call.in.threshold
        /\ \A i \in 1..Len(call.in.found) :
              call.in.found[i].confidence < call.in.threshold =>
                  \A j \in 1..Len(call.out) : call.out[j].id # call.in.found[i].id
        /\ \A i \in 1..Len(call.in.found) :
              call.in.found[i].confidence >= call.in.threshold =>
                  \E j \in 1..Len(call.out) : call.out[j] = call.in.found[i]

\* C19 witness: of two candidates one was below the threshold and was
\* dropped, the other was handed on.
Wit_C19_OneDropped ==
    /\ call.fn = "persist_candidates"
    /\ Len(call.out) = 1
    /\ \E i \in 1..2 : call.in.found[i].confidence < call.in.threshold
\* C21: a committed first-blood row is never changed or removed: later solve
\* insertions for its challenge (earlier timestamp or lower user id
\* included), cache changes and the retention cleanup leave it as created.
Thm_C21_RecordNeverChanges ==
    [][ \A r \in fb : r.committed => r \in fb' ]_vars

\* C21 witness: the row of a challenge names a solve, a solve of the same
\* challenge with an earlier timestamp and a lower user id went through the
\* hook after the row was committed, and the cleanup has deleted findings.
Wit_C21_EarlierSolveCameLater ==
    \E r \in fb, p \in Procs :
        /\ r.committed /\ r.solve_id # p
        /\ pc[p] = "done" /\ outcome[p] = "exists" /\ chal[p] = r.challenge_id
        /\ ts[p] < r.timestamp /\ UserOf(p) < r.user_id
        /\ findings = {}

Cex_C23_FullHistory ==
    call.fn = "get_history" =>
        \A t \in QueryTimes : call.out[t] = call.in.rows[t]

Cex_C25_LockAloneDecides ==
    (lockSupported /\ \A p \in Procs : outcome[p] \notin {"lock_timeout", "lock_error"})
        => /\ \A p \in Procs : outcome[p] # "unique"
           /\ \A p, q \in Procs :
                 (p # q /\ chal[p] = chal[q])
                    => ~(pc[p] = "hook_insert" /\ pc[q] = "hook_insert")

\* C26: an invocation that acquired the advisory lock no longer holds it
\* once the hook has returned, whichever way it returned.
Cex_C26_LockReleasedOnReturn ==
    \A p \in Procs :
        pc[p] \in {"flushed", "done", "rolled_back", "aborted_by_hook"}
            => \A c \in Challenges : lockHolder[c] # p

\* C27: an invocation whose lock request finds the lock held by another
\* connection returns at that step, with the holder still holding: no row
\* is created, the cache entry is left as it is, and the invocation never
\* goes back to the lock or the store.
Thm_C27_TimeoutEndsAttempt ==
    [][ \A p \in Procs :
            /\ (pc[p] = "hook_lock" /\ pc'[p] # "hook_lock" /\ lockSupported
                    /\ lockHolder[chal[p]] \notin {None, p})
                  => /\ pc'[p] = "flushed"
                     /\ outcome'[p] \in {"lock_timeout", "lock_error"}
                     /\ fb' = fb /\ cache' = cache /\ lockHolder' = lockHolder
            /\ outcome[p] = "lock_timeout"
                  => /\ outcome'[p] = "lock_timeout"
                     /\ pc'[p] \in {"flushed", "done", "rolled_back"}
                     /\ \A r \in fb' : r.solve_id # p
      ]_vars

\* C27 witness: an invocation timed out on the lock and its solve
\* committed while the holder, long returned, still holds the lock.
Wit_C27_TimedOutHolderKeeps ==
    \E p, q \in Procs :
        /\ p # q /\ outcome[p] = "lock_timeout" /\ pc[p] = "done"
        /\ lockHolder[chal[p]] = q /\ pc[q] = "done"
        /\ \A r \in fb : r.solve_id # p

\* C28 as stated: on a store without the advisory-lock primitive no
\* invocation creates a first-blood row.
Cex_C28_UnsupportedLockExits ==
    ~lockSupported => fb = {}

\* C28 amended: when the lock call raises, the invocation does not exit:
\* it goes on to the existence check without a lock, and the uniqueness
\* constraint keeps the rows of a challenge to at most one.
Thm_C28_UnsupportedLockGoesOn ==
    [][ \A p \in Procs :
            (pc[p] = "hook_lock" /\ pc'[p] # "hook_lock" /\ ~lockSupported)
                => /\ pc'[p] = "hook_check_fb"
                   /\ outcome'[p] = outcome[p]
                   /\ lockHolder' = lockHolder
                   /\ \A c \in Challenges :
                         Cardinality({r \in fb' : r.challenge_id = c}) <= 1
      ]_vars

\* C28 witness: on a store without the primitive an invocation inserted
\* the row and its solve committed, and another one met the constraint.
Wit_C28_DecidedWithoutLock ==
    /\ ~lockSupported
    /\ \E p, q \in Procs :
          /\ p # q /\ pc[p] = "done" /\ outcome[p] = "inserted"
          /\ \E r \in fb : r.solve_id = p /\ r.committed
          /\ outcome[q] = "unique"

\* C29: a validly signed claimed hint in the cache means a committed
\* first-blood row for the challenge exists; stated for the states in which
\* no solve transaction is open, where a hint set for a decision that was
\* skipped, not persisted or rolled back shows.
Cex_C29_HintImpliesRecord ==
    (\A p \in Procs : pc[p] \in {"idle", "done", "rolled_back", "aborted_by_hook"})
        => \A c \in Challenges : cache[c] = "valid" => CommittedFB(c) # {}

\* C30: once create_suspicion_record has returned None, the pipeline
\* session holds no row lock on a consent record, so no grant or withdrawal
\* started afterwards has to wait for it.
Cex_C30_DeniedReleasesLocks ==
    \A w \in Workers :
        (wpc[w] = "loop" /\ wresult[w] = "None")
            => \A u \in Users : rowLock[u] # WorkerSession(w)

\* C31: once every overlapping review request on a finding has finished
\* (here: each with success), the finding's convenience verdict is the
\* verdict of the audit entry with the latest created_at for that finding.
Cex_C31_ConvenienceIsLatest ==
    (\A r \in Reviewers : rpc[r] = "idle") =>
        \A f \in findings :
            LET es == {e \in CommittedAudit : e.suspicion_id = f.id}
                latest == {e \in es : \A o \in es : o.created_at <= e.created_at}
            IN (es # {} /\ \A e \in es : \E a \in answered : a.id = e.id)
                  => \E e \in latest : f.admin_verdict = e.verdict

\* C32: the audit-entry insertion and the update of the convenience fields
\* of one review request are atomic: when the request finishes, either both
\* are persisted (and the answer is a success) or neither is; a request
\* that ends with an error leaves no audit entry behind.
Cex_C32_EntryAndUpdateAtomic ==
    [][ \A r \in Reviewers :
          (rpc[r] \in {"record", "record_commit", "update"} /\ rpc'[r] = "idle") =>
             \/ /\ rresp'[r].status = "200"
                /\ \E e \in EntryById(audit', rentry[r]) : e.committed
                /\ \E f \in findings' : f.id = rfind[r] /\ f.admin_verdict = rverdict[r]
             \/ /\ rresp'[r].status # "200"
                /\ EntryById(audit', rentry[r]) = {}
                /\ findings' = findings
      ]_vars

\* C33: under any interleaving of grant_consent and withdraw_consent calls
\* on a user, the stored consent changes only when a call completes, and
\* when a call completes has_consent(user) is true exactly when that call
\* was grant_consent (the row is the user's only one).
Cex_C33_LastCompletedCallDecides ==
    [][ /\ \A t \in Togglers :
              (tpc[t] = "commit" /\ tpc'[t] = "idle")
                  => consent'[tuser[t]] = ConsentValue(top[t])
        /\ \A u \in Users :
              consent'[u] # consent[u]
                  => \E t \in Togglers :
                        tpc[t] = "commit" /\ tpc'[t] = "idle" /\ tuser[t] = u
      ]_vars

\* The signals that hold for a pair of submissions of one challenge.
SignalsOf(s1, s2) ==
    (IF s1.ip # "" /\ s1.ip = s2.ip THEN {"same_ip"} ELSE {})
    \cup (IF TimeDelta(s1, s2) <= TEMPORAL_WINDOW_SECONDS THEN {"temporal_proximity"} ELSE {})
    \cup (IF s1.type = "incorrect" /\ s2.type = "incorrect" /\ s1.provided = s2.provided
          THEN {"duplicate_wrong"} ELSE {})
    \cup (IF levenshtein_ratio(s1.user_agent, s2.user_agent) >= UA_SIMILARITY_THRESHOLD
          THEN {"similar_ua"} ELSE {})

\* C34: the confidence of a candidate pair is the sum of the weights of
\* every signal that holds for the pair, capped at 1.0, whichever pass
\* produced the candidate.
Cex_C34_ConfidenceSumsAllSignals ==
    call.fn = "detect" =>
        \A i \in 1..Len(call.out) :
            call.out[i].confidence =
                calculate_suspicion_confidence(SignalsOf(call.in[1], call.in[2]))

\* A run under the default threshold, by two consenting users and without a
\* store error, that persists a finding.
DefaultRunCreates ==
    /\ CallRuns
    /\ call'.in.threshold = DefaultThreshold
    /\ \A u \in Users : call'.in.consentOf[u] = "granted"
    /\ ~call'.in.dbError
    /\ call'.out[1].table # <<>>

\* C35: with the default weights and the default threshold the pipeline can
\* create a finding: there are submissions by two consenting users for which
\* a run persists at least one finding.
Cex_C35_DefaultCanCreate ==
    call = NoCall => ENABLED DefaultRunCreates

\* C36: across runs with overlapping windows the table never holds two rows
\* with the same detection type, challenge and pair of submissions.
Cex_C36_NoDuplicateFindings ==
    call.fn = "runs" =>
        LET table == call.out[2].table IN
        \A i, j \in 1..Len(table) : table[i] = table[j] => i = j

\* C38: the value a run returns is the number of findings it persisted.
Cex_C38_ReturnsPersistedCount ==
    call.fn = "runs" =>
        /\ call.out[1].returned = Len(call.out[1].table)
        /\ call.out[2].returned = Len(call.out[2].table) - Len(call.out[1].table)

WaitsFor(w, v) ==
    /\ wpc[w] \in {"lock1", "lock2"}
    /\ rowLock[wpat[w][IF wpc[w] = "lock1" THEN 1 ELSE 2]] = WorkerSession(v)

\* C37: concurrent create_suspicion_record calls never wait for each other:
\* no two calls lock the same two consent rows in opposite orders, so no
\* call waits forever or is aborted for it.
Cex_C37_NoOppositeLockOrder ==
    \A w \in Sessions, v \in Sessions :
        w # v => ~(WaitsFor(w, v) /\ WaitsFor(v, w))

\* C40: the prestige stored with a first-blood record is 1.5 times the
\* challenge's point value rounded down to an integer, with 100 as the base
\* when the challenge has no value, a zero or negative value, or no row; a
\* challenge without a fixed value yields 150.
Thm_C40_PrestigeIsFloorOfOneAndAHalf ==
    call.fn = "prestige" =>
        LET noValue == ~call.in.found \/ call.in.isNull \/ call.in.value <= 0
            base == IF noValue THEN 100 ELSE call.in.value
        IN /\ 2 * call.out <= 3 * base
           /\ 3 * base < 2 * (call.out + 1)
           /\ noValue => call.out = 150

\* C40 witness: a challenge worth an odd number of points, whose prestige
\* was rounded down.
Wit_C40_RoundedDown ==
    /\ call.fn = "prestige"
    /\ call.in.found /\ ~call.in.isNull /\ call.in.value = 201
    /\ call.out = 301
====
